---- MODULE Spec2Model ----
(***************************************************************************)
(* Sumly: the local persistence layer (lib/database.ts) and the budget     *)
(* context over it (BudgetProvider).                                       *)
(*                                                                         *)
(* Every exported operation is an async function; each `await` on a store  *)
(* call is one step of the model, so calls of different callers interleave *)
(* exactly where the JavaScript event loop lets them.  A process p is one  *)
(* caller: pc[p] is the await it is suspended at, call[p] its arguments    *)
(* and locals; context and task are the budget context (BudgetProvider)    *)
(* and the callback of it that p is running, which stay as they are while  *)
(* the operations are called directly; screen, form and saves are the      *)
(* Transactions screen with its two forms and the submissions made there.  *)
(* Text values (names, colors) are sequences of characters;                *)
(* a date text is its year, month and day; an instant is a UTC date and    *)
(* hour.  The description column, which no statement examines, is left     *)
(* out of the rows.                                                        *)
(***************************************************************************)
EXTENDS Integers, Sequences, FiniteSets, TLC

VARIABLES
    databaseInstance,   \* the module-level handle, NULL until the first open resolves
    opened,             \* how many connections openDatabaseAsync has handed out
    fkOn,               \* the connections on which PRAGMA foreign_keys = ON has run
    tables,             \* whether the file holds the two tables
    schemaRuns,         \* how many times createTablesStatement was executed
    seedRuns,           \* how many times seedDefaultCategories was entered
    categories,         \* rows of table categories
    transactions,       \* rows of table transactions
    sqlite_sequence,    \* AUTOINCREMENT high-water marks of the two tables
    pc,                 \* per caller: the await it is suspended at
    call,               \* per caller: arguments, locals, outcome
    calls,              \* calls started so far
    context,            \* the state hooks of BudgetProvider
    task,               \* per caller: the callback of the context it is running
    screen,             \* the state hooks of the Transactions screen
    form,               \* per form: its isSubmitting hook and the alert it showed last
    saves               \* the onSubmit calls the forms have made, in order

vars == <<databaseInstance, opened, fkOn, tables, schemaRuns, seedRuns,
          categories, transactions, sqlite_sequence, pc, call, calls, context, task,
          screen, form, saves>>

storeVars == <<categories, transactions, sqlite_sequence>>
connVars == <<databaseInstance, opened, fkOn, tables, schemaRuns, seedRuns>>
uiVars == <<screen, form, saves>>
ctxVars == <<context, task, uiVars>>

-----------------------------------------------------------------------------
(* Bounds of the exploration.                                              *)

MaxCallsSeq == 2
MaxCallsFault == 2
MaxCallsConc == 3

Procs == {1, 2}

-----------------------------------------------------------------------------
(* Values.                                                                 *)

NULL == 0

Salary == <<"S","a","l","a","r","y">>
Freelance == <<"F","r","e","e","l","a","n","c","e">>
InvestmentIncome == <<"I","n","v","e","s","t","m","e","n","t"," ","I","n","c","o","m","e">>
Groceries == <<"G","r","o","c","e","r","i","e","s">>
Housing == <<"H","o","u","s","i","n","g">>
Transportation == <<"T","r","a","n","s","p","o","r","t","a","t","i","o","n">>
Utilities == <<"U","t","i","l","i","t","i","e","s">>
DiningOut == <<"D","i","n","i","n","g"," ","O","u","t">>
Savings == <<"S","a","v","i","n","g","s">>
Health == <<"H","e","a","l","t","h">>

DEFAULT_CATEGORIES ==
    << [name |-> Salary,           type |-> "income",  color |-> <<"#","2","e","7","d","3","2">>],
       [name |-> Freelance,        type |-> "income",  color |-> <<"#","0","0","7","9","6","b">>],
       [name |-> InvestmentIncome, type |-> "income",  color |-> <<"#","5","1","2","d","a","8">>],
       [name |-> Groceries,        type |-> "expense", color |-> <<"#","c","6","2","8","2","8">>],
       [name |-> Housing,          type |-> "expense", color |-> <<"#","a","d","1","4","5","7">>],
       [name |-> Transportation,   type |-> "expense", color |-> <<"#","1","5","6","5","c","0">>],
       [name |-> Utilities,        type |-> "expense", color |-> <<"#","e","f","6","c","0","0">>],
       [name |-> DiningOut,        type |-> "expense", color |-> <<"#","6","a","1","b","9","a">>],
       [name |-> Savings,          type |-> "expense", color |-> <<"#","0","0","8","3","8","f">>],
       [name |-> Health,           type |-> "expense", color |-> <<"#","5","5","8","b","2","f">>] >>

CategoryType == {"income", "expense"}

(* String.prototype.trim: strips white space at both ends. *)
IsWhiteSpace(c) == c \in {" ", "\t", "\n"}

RECURSIVE TrimStart(_)
TrimStart(s) ==
    IF s = <<>> THEN s
    ELSE IF IsWhiteSpace(Head(s)) THEN TrimStart(Tail(s)) ELSE s

RECURSIVE TrimEnd(_)
TrimEnd(s) ==
    IF s = <<>> THEN s
    ELSE IF IsWhiteSpace(s[Len(s)]) THEN TrimEnd(SubSeq(s, 1, Len(s) - 1)) ELSE s

(* As Trim, had the name been taken as typed. *)
TrimLeftOut(s) == s

Trim(s) == TrimEnd(TrimStart(s))

(* Math.abs *)
Abs(x) == IF x < 0 THEN -x ELSE x

(* As NormalizeAmount, had Math.abs been left out. *)
NormalizeAmountKeepsSign(type, amount) == IF type = "expense" THEN -amount ELSE amount

(* type === 'expense' ? -Math.abs(amount) : Math.abs(amount) *)
NormalizeAmount(type, amount) == IF type = "expense" THEN -Abs(amount) ELSE Abs(amount)

(* (input.color ?? '').trim() || (input.type === 'expense' ? '#c62828' : '#2e7d32') *)
ColorOrDefault(color, type) ==
    IF Trim(color) # <<>> THEN Trim(color)
    ELSE IF type = "expense" THEN <<"#","c","6","2","8","2","8">>
         ELSE <<"#","2","e","7","d","3","2">>

-----------------------------------------------------------------------------
(* Dates.  A YYYY-MM-DD text is zero-padded and of fixed width, so the     *)
(* order of two such texts is the order of year, then month, then day.     *)

Date(y, m, d) == [year |-> y, month |-> m, day |-> d]

(* '' or undefined, the falsy occurredOn *)
NoDate == Date(0, 0, 0)

(* a <= b as texts *)
DateLeq(a, b) ==
    \/ a.year < b.year
    \/ a.year = b.year /\ a.month < b.month
    \/ a.year = b.year /\ a.month = b.month /\ a.day <= b.day

(* x BETWEEN lo AND hi *)
Between(x, lo, hi) == DateLeq(lo, x) /\ DateLeq(x, hi)

IsLeapYear(y) == (y % 4 = 0 /\ y % 100 # 0) \/ y % 400 = 0

DaysInMonth(y, m) ==
    IF m = 2 THEN (IF IsLeapYear(y) THEN 29 ELSE 28)
    ELSE IF m \in {4, 6, 9, 11} THEN 30 ELSE 31

PreviousDay(d) ==
    IF d.day > 1 THEN Date(d.year, d.month, d.day - 1)
    ELSE IF d.month > 1 THEN Date(d.year, d.month - 1, DaysInMonth(d.year, d.month - 1))
    ELSE Date(d.year - 1, 12, 31)

NextDay(d) ==
    IF d.day < DaysInMonth(d.year, d.month) THEN Date(d.year, d.month, d.day + 1)
    ELSE IF d.month < 12 THEN Date(d.year, d.month + 1, 1)
    ELSE Date(d.year + 1, 1, 1)

(* A Date object: an instant, held as toISOString prints it, to the hour. *)
Instant(d, h) == [date |-> d, hour |-> h]

(* a <= b as toISOString texts: the date, then the time of day *)
InstantLeq(a, b) ==
    \/ a.date # b.date /\ DateLeq(a.date, b.date)
    \/ a.date = b.date /\ a.hour <= b.hour

(* date.toISOString().slice(0, 10): the UTC date of the instant *)
toDateOnlyString(t) == t.date

(* getFullYear, getMonth, getDate: the date the instant has on the clock of
   a device whose zone is tz hours ahead of UTC. *)
LocalDate(t, tz) ==
    IF t.hour + tz >= 24 THEN NextDay(t.date)
    ELSE IF t.hour + tz < 0 THEN PreviousDay(t.date)
    ELSE t.date

(* new Date(year, monthIndex, day): midnight of that date on the local
   clock, as an instant. *)
LocalMidnight(d, tz) ==
    IF tz > 0 THEN Instant(PreviousDay(d), 24 - tz) ELSE Instant(d, -tz)

(* monthBounds, lines 377-384: new Date(y, m, 1) and new Date(y, m + 1, 0),
   day 0 being the day before the first of the next month, each printed by
   toDateOnlyString. *)
monthBounds(target, tz) ==
    LET local == LocalDate(target, tz)
        first == Date(local.year, local.month, 1)
        firstOfNext == IF local.month = 12 THEN Date(local.year + 1, 1, 1)
                       ELSE Date(local.year, local.month + 1, 1)
        last == PreviousDay(firstOfNext)
    IN [start |-> toDateOnlyString(LocalMidnight(first, tz)),
        end |-> toDateOnlyString(LocalMidnight(last, tz))]

-----------------------------------------------------------------------------
(* The store as the SQL statements see it.                                 *)

Store == [categories |-> categories, transactions |-> transactions]

EmptyStore == [categories |-> {}, transactions |-> {}]

CategoryIds(cats) == {c.id : c \in cats}
TransactionIds(txs) == {t.id : t \in txs}

CategoryById(cats, id) == CHOOSE c \in cats : c.id = id
TransactionById(txs, id) == CHOOSE t \in txs : t.id = id

(* SELECT ... FROM transactions t LEFT JOIN categories c ON c.id = t.category_id *)
JoinedRow(t, cats) ==
    [id |-> t.id, amount |-> t.amount, occurredOn |-> t.occurredOn,
     categoryId |-> t.categoryId, createdAt |-> t.createdAt,
     categoryName |-> IF t.categoryId \in CategoryIds(cats)
                      THEN CategoryById(cats, t.categoryId).name ELSE <<>>,
     categoryType |-> IF t.categoryId \in CategoryIds(cats)
                      THEN CategoryById(cats, t.categoryId).type ELSE "null"]

(* As UniqueViolation, had the column not been declared UNIQUE. *)
UniqueViolationOff(cats, id, name) == FALSE

(* name TEXT NOT NULL UNIQUE: would a row `id` carrying `name` collide? *)
UniqueViolation(cats, id, name) == \E c \in cats : c.id # id /\ c.name = name

(* category_id INTEGER REFERENCES categories(id), enforced on a connection
   only after PRAGMA foreign_keys = ON has run on it. *)
ForeignKeyViolation(db, cats, categoryId) ==
    db \in fkOn /\ categoryId # NULL /\ categoryId \notin CategoryIds(cats)

-----------------------------------------------------------------------------
(* Callers.                                                                *)

(* What `new Date()` reads while nothing says otherwise. *)
ClockReading == Instant(Date(2024, 3, 15), 12)

NoCall ==
    [op |-> "none", id |-> NULL, input_name |-> <<>>, type |-> "income",
     input_color |-> <<>>, amount |-> 0, categoryId |-> NULL,
     input_occurredOn |-> NoDate, target |-> ClockReading,
     limit |-> {}, startDate |-> NoDate, endDate |-> NoDate,
     at |-> ClockReading, tz |-> 0,
     name |-> <<>>, color |-> <<>>, occurredOn |-> NoDate,
     handle |-> NULL, seedDb |-> NULL, seedIdx |-> 0, seedPre |-> {}, db |-> NULL,
     normalizedAmount |-> 0, categoryType |-> "null", rowId |-> NULL,
     error |-> "none", pre |-> EmptyStore, result |-> {}]

Input(op, id, name, type, color, amount, categoryId) ==
    [NoCall EXCEPT !.op = op, !.id = id, !.input_name = name, !.type = type,
                   !.input_color = color, !.amount = amount, !.categoryId = categoryId]

(* BudgetProvider as it mounts, part_000 lines 439-445: the initial values
   of the six state hooks.  A list is a sequence; null is "null". *)
defaultTotals == [income |-> 0, expenses |-> 0, balance |-> 0]

Mounted ==
    [categories |-> <<>>, transactions |-> <<>>, monthlyTotals |-> defaultTotals,
     categoryTotals |-> <<>>, loading |-> TRUE, lastError |-> "null"]

(* A callback of the context: its name, where it stands, the reads of its
   Promise.all not yet issued and the values of those resolved, how it
   settled and with which error; and, for the record, the context as it was
   when the callback was invoked and the loadData calls it has made. *)
NoTask ==
    [op |-> "none", stage |-> "idle", pending |-> {}, got |-> <<>>,
     outcome |-> "none", error |-> "none", loadError |-> "none",
     before |-> Mounted, loads |-> 0]

(* The Transactions screen as it mounts, part_000 lines 291-293, and its
   two forms, TransactionForm.tsx line 42 and CategoryForm.tsx line 22;
   null is "null". *)
Forms == {"TransactionForm", "CategoryForm"}

ScreenMounted ==
    [formMode |-> "null", activeTransaction |-> NULL, isCategoryModalVisible |-> FALSE]

FormsMounted == [f \in Forms |-> [isSubmitting |-> FALSE, alert |-> "none"]]

Init ==
    /\ context = Mounted
    /\ task = [p \in Procs |-> NoTask]
    /\ screen = ScreenMounted
    /\ form = FormsMounted
    /\ saves = <<>>
    /\ databaseInstance = NULL
    /\ opened = 0
    /\ fkOn = {}
    /\ tables = FALSE
    /\ schemaRuns = 0
    /\ seedRuns = 0
    /\ categories = {}
    /\ transactions = {}
    /\ sqlite_sequence = [categories |-> 0, transactions |-> 0]
    /\ pc = [p \in Procs |-> "idle"]
    /\ call = [p \in Procs |-> NoCall]
    /\ calls = 0

-----------------------------------------------------------------------------
(* Helpers of the steps.                                                   *)

Set(p, newPc, newCall) ==
    /\ pc' = [pc EXCEPT ![p] = newPc]
    /\ call' = [call EXCEPT ![p] = newCall]

(* The call settles: resolved (error "none") with `result`, or rejected. *)
Settle(p, c, error, result) ==
    Set(p, "done", [c EXCEPT !.error = error, !.result = result])

(* What a caller does between `await getDatabase()` returning `db` and its
   first store call: the synchronous prefix of each exported function.
   occurredOn (lines 283, 334) is computed after the lookup from nothing
   the lookup reads, and is set here as well. *)
Enter(c, db, store) ==
    LET c0 == [c EXCEPT !.db = db, !.pre = store]
        occurredOn == IF c.input_occurredOn # NoDate THEN c.input_occurredOn
                      ELSE toDateOnlyString(c.at)
    IN
    CASE c.op = "initializeDatabase" ->
           [pc |-> "done", call |-> c0]
      [] c.op \in {"createCategory", "updateCategory"} ->
           IF Trim(c.input_name) = <<>>
           THEN [pc |-> "done", call |-> [c0 EXCEPT !.error = "validation"]]
           ELSE [pc |-> IF c.op = "createCategory" THEN "cc_insert" ELSE "uc_update",
                 call |-> [c0 EXCEPT !.name = Trim(c.input_name),
                                     !.color = ColorOrDefault(c.input_color, c.type)]]
      [] c.op \in {"createTransaction", "updateTransaction"} ->
           IF c.categoryId # NULL
           THEN [pc |-> IF c.op = "createTransaction" THEN "ct_lookup" ELSE "ut_lookup",
                 call |-> [c0 EXCEPT !.normalizedAmount = Abs(c.amount),
                                     !.categoryType = "null",
                                     !.occurredOn = occurredOn]]
           ELSE [pc |-> IF c.op = "createTransaction" THEN "ct_insert" ELSE "ut_update",
                 call |-> [c0 EXCEPT !.normalizedAmount = NormalizeAmount(c.type, c.amount),
                                     !.categoryType = c.type,
                                     !.occurredOn = occurredOn]]
      [] c.op = "deleteTransaction" ->
           [pc |-> "dt_delete", call |-> c0]
      [] c.op = "fetchCategories" ->
           [pc |-> "fc_select", call |-> c0]
      [] c.op = "fetchTransactions" ->
           [pc |-> "ft_select", call |-> c0]
      [] c.op = "fetchTransactionsForRange" ->
           [pc |-> "fr_select", call |-> c0]
      [] c.op = "fetchMonthlyTotals" ->
           [pc |-> "fmt_select", call |-> c0]
      [] c.op = "fetchMonthlyTotalsByCategory" ->
           [pc |-> "fmc_select", call |-> c0]

-----------------------------------------------------------------------------
(* getDatabase, lines 50-58, and seedDefaultCategories, lines 60-75.       *)

(* As Call, had getDatabase not tested databaseInstance. *)
CallReopens(p, in, max) ==
    /\ pc[p] = "idle"
    /\ calls < max
    /\ calls' = calls + 1
    /\ Set(p, "open", in)
    /\ UNCHANGED <<connVars, storeVars, ctxVars>>

(* A caller invokes an exported function; each starts with
   `await getDatabase()`, which tests databaseInstance synchronously. *)
Call(p, in, max) ==
    /\ pc[p] = "idle"
    /\ calls < max
    /\ calls' = calls + 1
    /\ IF databaseInstance = NULL
       THEN Set(p, "open", in)
       ELSE LET e == Enter(in, databaseInstance, Store) IN Set(p, e.pc, e.call)
    /\ UNCHANGED <<connVars, storeVars, ctxVars>>

(* openDatabaseAsync resolves: the handle is assigned, and execAsync is
   started on it in the same turn. *)
Open(p) ==
    /\ pc[p] = "open"
    /\ opened' = opened + 1
    /\ databaseInstance' = opened + 1
    /\ Set(p, "schema", [call[p] EXCEPT !.handle = opened + 1])
    /\ UNCHANGED <<fkOn, tables, schemaRuns, seedRuns, storeVars, calls, ctxVars>>

(* execAsync(createTablesStatement) resolves; seedDefaultCategories is
   entered with whatever databaseInstance holds by now. *)
Schema(p) ==
    /\ pc[p] = "schema"
    /\ fkOn' = fkOn \cup {call[p].handle}
    /\ tables' = TRUE
    /\ schemaRuns' = schemaRuns + 1
    /\ seedRuns' = seedRuns + 1
    /\ Set(p, "seed", [call[p] EXCEPT !.seedDb = databaseInstance, !.seedIdx = 1,
                                      !.seedPre = categories])
    /\ UNCHANGED <<databaseInstance, opened, storeVars, calls, ctxVars>>

(* As InsertOrIgnore, had the statement been INSERT OR REPLACE. *)
InsertOrReplace(cats, seq, d) ==
    [categories |-> {c \in cats : c.name # d.name} \cup
                        {[id |-> seq + 1, name |-> d.name, type |-> d.type,
                          color |-> d.color, createdAt |-> d.createdAt]},
     seq |-> seq + 1]

(* INSERT OR IGNORE of one default *)
InsertOrIgnore(cats, seq, d) ==
    IF UniqueViolation(cats, NULL, d.name)
    THEN [categories |-> cats, seq |-> seq]
    ELSE [categories |-> cats \cup {[id |-> seq + 1, name |-> d.name,
                                     type |-> d.type, color |-> d.color,
                                     createdAt |-> d.createdAt]},
          seq |-> seq + 1]

(* The parameters of the i-th INSERT of the seeding loop, lines 67-72. *)
SeedParameters(i, now) ==
    [name |-> DEFAULT_CATEGORIES[i].name, type |-> DEFAULT_CATEGORIES[i].type,
     color |-> DEFAULT_CATEGORIES[i].color, createdAt |-> now]

(* One INSERT OR IGNORE of the seeding loop resolves; after the last one
   getDatabase returns databaseInstance and the caller goes on. *)
Seed(p) ==
    /\ pc[p] = "seed"
    /\ LET c == call[p]
           r == InsertOrIgnore(categories, sqlite_sequence.categories,
                               SeedParameters(c.seedIdx, c.at))
       IN /\ categories' = r.categories
          /\ sqlite_sequence' = [sqlite_sequence EXCEPT !.categories = r.seq]
          /\ IF c.seedIdx < Len(DEFAULT_CATEGORIES)
             THEN Set(p, "seed", [c EXCEPT !.seedIdx = c.seedIdx + 1])
             ELSE LET e == Enter(c, databaseInstance,
                                 [categories |-> r.categories, transactions |-> transactions])
                  IN Set(p, e.pc, e.call)
    /\ UNCHANGED <<connVars, transactions, calls, ctxVars>>

(* The caller has its answer and is free to call again. *)
Return(p) ==
    /\ pc[p] = "done"
    /\ Set(p, "idle", NoCall)
    /\ UNCHANGED <<connVars, storeVars, calls, ctxVars>>

-----------------------------------------------------------------------------
(* createCategory, lines 113-159.                                          *)

(* As CcInsert, had the statement been given input.name instead of the
   trimmed name. *)
CcInsertRaw(p) ==
    /\ pc[p] = "cc_insert"
    /\ LET c == call[p]
           id == sqlite_sequence.categories + 1
       IN IF ~tables
          THEN Settle(p, c, "nosuchtable", {}) /\ UNCHANGED storeVars
          ELSE IF UniqueViolation(categories, NULL, c.input_name)
          THEN Settle(p, c, "duplicate", {}) /\ UNCHANGED storeVars
          ELSE /\ categories' = categories \cup
                     {[id |-> id, name |-> c.input_name, type |-> c.type, color |-> c.color,
                       createdAt |-> c.at]}
               /\ sqlite_sequence' = [sqlite_sequence EXCEPT !.categories = id]
               /\ Set(p, "cc_select", [c EXCEPT !.rowId = id])
               /\ UNCHANGED transactions
    /\ UNCHANGED <<connVars, calls, ctxVars>>

(* INSERT INTO categories resolves or rejects; a rejection whose message
   holds UNIQUE is rethrown as the duplicate-name error. *)
CcInsert(p) ==
    /\ pc[p] = "cc_insert"
    /\ LET c == call[p]
           id == sqlite_sequence.categories + 1
       IN IF ~tables
          THEN Settle(p, c, "nosuchtable", {}) /\ UNCHANGED storeVars
          ELSE IF UniqueViolation(categories, NULL, c.name)
          THEN Settle(p, c, "duplicate", {}) /\ UNCHANGED storeVars
          ELSE /\ categories' = categories \cup
                     {[id |-> id, name |-> c.name, type |-> c.type, color |-> c.color,
                       createdAt |-> c.at]}
               /\ sqlite_sequence' = [sqlite_sequence EXCEPT !.categories = id]
               /\ Set(p, "cc_select", [c EXCEPT !.rowId = id])
               /\ UNCHANGED transactions
    /\ UNCHANGED <<connVars, calls, ctxVars>>

(* SELECT ... WHERE id = lastInsertRowId resolves. *)
CcSelect(p) ==
    /\ pc[p] = "cc_select"
    /\ LET c == call[p] IN
       IF c.rowId \in CategoryIds(categories)
       THEN Settle(p, c, "none", {CategoryById(categories, c.rowId)})
       ELSE Settle(p, c, "unable", {})
    /\ UNCHANGED <<connVars, storeVars, calls, ctxVars>>

-----------------------------------------------------------------------------
(* updateCategory, lines 161-226.                                          *)

(* As UcUpdate, had the name column not been UNIQUE for an UPDATE. *)
UcUpdateOverTakenName(p) ==
    /\ pc[p] = "uc_update"
    /\ LET c == call[p] IN
       IF ~tables
       THEN Settle(p, c, "nosuchtable", {}) /\ UNCHANGED storeVars
       ELSE IF c.id \notin CategoryIds(categories)
       THEN Settle(p, c, "notfound", {}) /\ UNCHANGED storeVars
       ELSE /\ categories' = (categories \ {CategoryById(categories, c.id)}) \cup
                  {[CategoryById(categories, c.id) EXCEPT
                        !.name = c.name, !.type = c.type, !.color = c.color]}
            /\ Set(p, "uc_cascade", c)
            /\ UNCHANGED <<transactions, sqlite_sequence>>
    /\ UNCHANGED <<connVars, calls, ctxVars>>

(* As UcUpdate, had result.changes not been looked at. *)
UcUpdateChangesUnread(p) ==
    /\ pc[p] = "uc_update"
    /\ LET c == call[p] IN
       IF ~tables
       THEN Settle(p, c, "nosuchtable", {}) /\ UNCHANGED storeVars
       ELSE IF c.id \notin CategoryIds(categories)
       THEN Set(p, "uc_cascade", c) /\ UNCHANGED storeVars
       ELSE IF UniqueViolation(categories, c.id, c.name)
       THEN Settle(p, c, "duplicate", {}) /\ UNCHANGED storeVars
       ELSE /\ categories' = (categories \ {CategoryById(categories, c.id)}) \cup
                  {[CategoryById(categories, c.id) EXCEPT
                        !.name = c.name, !.type = c.type, !.color = c.color]}
            /\ Set(p, "uc_cascade", c)
            /\ UNCHANGED <<transactions, sqlite_sequence>>
    /\ UNCHANGED <<connVars, calls, ctxVars>>

(* UPDATE categories SET name, type, color WHERE id resolves or rejects;
   result.changes = 0 throws 'Category not found.' *)
UcUpdate(p) ==
    /\ pc[p] = "uc_update"
    /\ LET c == call[p] IN
       IF ~tables
       THEN Settle(p, c, "nosuchtable", {}) /\ UNCHANGED storeVars
       ELSE IF c.id \notin CategoryIds(categories)
       THEN Settle(p, c, "notfound", {}) /\ UNCHANGED storeVars
       ELSE IF UniqueViolation(categories, c.id, c.name)
       THEN Settle(p, c, "duplicate", {}) /\ UNCHANGED storeVars
       ELSE /\ categories' = (categories \ {CategoryById(categories, c.id)}) \cup
                  {[CategoryById(categories, c.id) EXCEPT
                        !.name = c.name, !.type = c.type, !.color = c.color]}
            /\ Set(p, "uc_cascade", c)
            /\ UNCHANGED <<transactions, sqlite_sequence>>
    /\ UNCHANGED <<connVars, calls, ctxVars>>

(* As Cascade, had the statement negated the amounts instead of
   normalising them. *)
CascadeNegates(txs, id, type) ==
    {IF t.categoryId = id THEN [t EXCEPT !.amount = -t.amount] ELSE t : t \in txs}

(* UPDATE transactions SET amount = CASE WHEN $type = 'expense'
   THEN -ABS(amount) ELSE ABS(amount) END WHERE category_id = $id *)
Cascade(txs, id, type) ==
    {IF t.categoryId = id THEN [t EXCEPT !.amount = NormalizeAmount(type, t.amount)] ELSE t
        : t \in txs}

UcCascade(p) ==
    /\ pc[p] = "uc_cascade"
    /\ LET c == call[p] IN
       /\ transactions' = Cascade(transactions, c.id, c.type)
       /\ Set(p, "uc_select", c)
    /\ UNCHANGED <<connVars, categories, sqlite_sequence, calls, ctxVars>>

(* SELECT ... FROM categories WHERE id resolves. *)
UcSelect(p) ==
    /\ pc[p] = "uc_select"
    /\ LET c == call[p] IN
       IF c.id \in CategoryIds(categories)
       THEN Settle(p, c, "none", {CategoryById(categories, c.id)})
       ELSE Settle(p, c, "unable", {})
    /\ UNCHANGED <<connVars, storeVars, calls, ctxVars>>

-----------------------------------------------------------------------------
(* createTransaction, lines 261-311, and updateTransaction, lines 313-370. *)

(* SELECT type FROM categories WHERE id = $id; `if (category?.type)` *)
Lookup(c, cats) ==
    IF c.categoryId \in CategoryIds(cats)
    THEN [c EXCEPT !.categoryType = CategoryById(cats, c.categoryId).type,
                   !.normalizedAmount =
                       NormalizeAmount(CategoryById(cats, c.categoryId).type, c.amount)]
    ELSE c

(* mapTransactionRow({...row, category_type: categoryType ?? row.category_type}) *)
Returned(c, txs, cats, id) ==
    LET row == JoinedRow(TransactionById(txs, id), cats) IN
    [row EXCEPT !.categoryType =
        IF c.categoryType # "null" THEN c.categoryType ELSE row.categoryType]

CtLookup(p) ==
    /\ pc[p] = "ct_lookup"
    /\ LET c == call[p] IN
       IF ~tables
       THEN Settle(p, c, "nosuchtable", {})
       ELSE Set(p, "ct_insert", Lookup(c, categories))
    /\ UNCHANGED <<connVars, storeVars, calls, ctxVars>>

(* INSERT INTO transactions resolves or rejects. *)
CtInsert(p) ==
    /\ pc[p] = "ct_insert"
    /\ LET c == call[p]
           id == sqlite_sequence.transactions + 1
       IN IF ~tables
          THEN Settle(p, c, "nosuchtable", {}) /\ UNCHANGED storeVars
          ELSE IF ForeignKeyViolation(c.db, categories, c.categoryId)
          THEN Settle(p, c, "foreignkey", {}) /\ UNCHANGED storeVars
          ELSE /\ transactions' = transactions \cup
                     {[id |-> id, amount |-> c.normalizedAmount,
                       occurredOn |-> c.occurredOn, categoryId |-> c.categoryId,
                       createdAt |-> c.at, callerType |-> c.type]}
               /\ sqlite_sequence' = [sqlite_sequence EXCEPT !.transactions = id]
               /\ Set(p, "ct_select", [c EXCEPT !.rowId = id])
               /\ UNCHANGED categories
    /\ UNCHANGED <<connVars, calls, ctxVars>>

CtSelect(p) ==
    /\ pc[p] = "ct_select"
    /\ LET c == call[p] IN
       IF c.rowId \in TransactionIds(transactions)
       THEN Settle(p, c, "none", {Returned(c, transactions, categories, c.rowId)})
       ELSE Settle(p, c, "unable", {})
    /\ UNCHANGED <<connVars, storeVars, calls, ctxVars>>

UtLookup(p) ==
    /\ pc[p] = "ut_lookup"
    /\ LET c == call[p] IN
       IF ~tables
       THEN Settle(p, c, "nosuchtable", {})
       ELSE Set(p, "ut_update", Lookup(c, categories))
    /\ UNCHANGED <<connVars, storeVars, calls, ctxVars>>

(* As UtUpdate, had the statement set created_at as the INSERT does. *)
UtUpdateStampsAnew(p) ==
    /\ pc[p] = "ut_update"
    /\ LET c == call[p] IN
       IF ~tables
       THEN Settle(p, c, "nosuchtable", {}) /\ UNCHANGED storeVars
       ELSE IF c.id \notin TransactionIds(transactions)
       THEN Settle(p, c, "notfound", {}) /\ UNCHANGED storeVars
       ELSE IF ForeignKeyViolation(c.db, categories, c.categoryId)
       THEN Settle(p, c, "foreignkey", {}) /\ UNCHANGED storeVars
       ELSE /\ transactions' = (transactions \ {TransactionById(transactions, c.id)}) \cup
                  {[TransactionById(transactions, c.id) EXCEPT
                        !.amount = c.normalizedAmount, !.occurredOn = c.occurredOn,
                        !.categoryId = c.categoryId, !.callerType = c.type,
                        !.createdAt = c.at]}
            /\ Set(p, "ut_select", c)
            /\ UNCHANGED <<categories, sqlite_sequence>>
    /\ UNCHANGED <<connVars, calls, ctxVars>>

(* UPDATE transactions SET ... WHERE id resolves or rejects;
   result.changes = 0 throws 'Transaction not found.' *)
UtUpdate(p) ==
    /\ pc[p] = "ut_update"
    /\ LET c == call[p] IN
       IF ~tables
       THEN Settle(p, c, "nosuchtable", {}) /\ UNCHANGED storeVars
       ELSE IF c.id \notin TransactionIds(transactions)
       THEN Settle(p, c, "notfound", {}) /\ UNCHANGED storeVars
       ELSE IF ForeignKeyViolation(c.db, categories, c.categoryId)
       THEN Settle(p, c, "foreignkey", {}) /\ UNCHANGED storeVars
       ELSE /\ transactions' = (transactions \ {TransactionById(transactions, c.id)}) \cup
                  {[TransactionById(transactions, c.id) EXCEPT
                        !.amount = c.normalizedAmount, !.occurredOn = c.occurredOn,
                        !.categoryId = c.categoryId, !.callerType = c.type]}
            /\ Set(p, "ut_select", c)
            /\ UNCHANGED <<categories, sqlite_sequence>>
    /\ UNCHANGED <<connVars, calls, ctxVars>>

UtSelect(p) ==
    /\ pc[p] = "ut_select"
    /\ LET c == call[p] IN
       IF c.id \in TransactionIds(transactions)
       THEN Settle(p, c, "none", {Returned(c, transactions, categories, c.id)})
       ELSE Settle(p, c, "unable", {})
    /\ UNCHANGED <<connVars, storeVars, calls, ctxVars>>

-----------------------------------------------------------------------------
(* deleteTransaction, lines 372-375, and fetchTransactions, lines 228-241. *)

(* As DtDelete, had a DELETE that removes no row been taken for a failure. *)
DtDeleteOfPresentOnly(p) ==
    /\ pc[p] = "dt_delete"
    /\ LET c == call[p] IN
       IF ~tables
       THEN Settle(p, c, "nosuchtable", {}) /\ UNCHANGED transactions
       ELSE IF c.id \notin TransactionIds(transactions)
       THEN Settle(p, c, "notfound", {}) /\ UNCHANGED transactions
       ELSE /\ transactions' = {t \in transactions : t.id # c.id}
            /\ Settle(p, c, "none", {})
    /\ UNCHANGED <<connVars, categories, sqlite_sequence, calls, ctxVars>>

(* DELETE FROM transactions WHERE id = $id resolves. *)
DtDelete(p) ==
    /\ pc[p] = "dt_delete"
    /\ LET c == call[p] IN
       IF ~tables
       THEN Settle(p, c, "nosuchtable", {}) /\ UNCHANGED transactions
       ELSE /\ transactions' = {t \in transactions : t.id # c.id}
            /\ Settle(p, c, "none", {})
    /\ UNCHANGED <<connVars, categories, sqlite_sequence, calls, ctxVars>>

(* WHERE occurred_on BETWEEN $start AND $end *)
InRange(txs, bounds) ==
    {t \in txs : Between(t.occurredOn, bounds.start, bounds.end)}

(* fetchTransactions, lines 228-241, and fetchTransactionsForRange, lines
   243-259.  The parameter limit is held as a set: empty when the caller
   passed none. *)
DefaultLimit == 50

LimitOrDefault(limit) == IF limit = {} THEN DefaultLimit ELSE CHOOSE n \in limit : TRUE

(* As Precedes, had the statement ordered by occurred_on alone. *)
PrecedesByDateAlone(a, b) == DateLeq(b.occurredOn, a.occurredOn)

(* ORDER BY t.occurred_on DESC, t.created_at DESC: a may stand before b. *)
Precedes(a, b) ==
    \/ a.occurredOn # b.occurredOn /\ DateLeq(b.occurredOn, a.occurredOn)
    \/ a.occurredOn = b.occurredOn /\ InstantLeq(b.createdAt, a.createdAt)

(* The orders in which such a statement may return rows: rows equal in
   both columns come in either order. *)
RECURSIVE RowOrderings(_)
RowOrderings(rows) ==
    IF rows = {} THEN {<<>>}
    ELSE UNION {{<<r>> \o s : s \in RowOrderings(rows \ {r})}
                  : r \in {r \in rows : \A q \in rows : Precedes(r, q)}}

(* As Limit, had the statement had no LIMIT clause. *)
LimitLeftOut(rows, n) == rows

(* LIMIT $limit: the first n rows; a negative n sets no limit. *)
Limit(rows, n) ==
    IF n < 0 \/ n >= Len(rows) THEN rows ELSE SubSeq(rows, 1, n)

FtSelect(p) ==
    /\ pc[p] = "ft_select"
    /\ LET c == call[p] IN
       IF ~tables
       THEN Settle(p, c, "nosuchtable", {})
       ELSE \E rows \in RowOrderings({JoinedRow(t, categories) : t \in transactions}) :
               Settle(p, c, "none", {Limit(rows, LimitOrDefault(c.limit))})
    /\ UNCHANGED <<connVars, storeVars, calls, ctxVars>>

FrSelect(p) ==
    /\ pc[p] = "fr_select"
    /\ LET c == call[p]
           range == [start |-> c.startDate, end |-> c.endDate]
       IN
       IF ~tables
       THEN Settle(p, c, "nosuchtable", {})
       ELSE \E rows \in RowOrderings({JoinedRow(t, categories)
                                         : t \in InRange(transactions, range)}) :
               Settle(p, c, "none", {rows})
    /\ UNCHANGED <<connVars, storeVars, calls, ctxVars>>

-----------------------------------------------------------------------------
(* fetchMonthlyTotals, lines 386-407, and fetchMonthlyTotalsByCategory,    *)
(* lines 409-434.                                                          *)

(* SUM(amount) over rows that exist *)
RECURSIVE SumAmounts(_)
SumAmounts(rows) ==
    IF rows = {} THEN 0
    ELSE LET r == CHOOSE r \in rows : TRUE IN r.amount + SumAmounts(rows \ {r})

(* The one row the aggregate query of lines 391-395 returns: each SUM is
   NULL when no row is in range. *)
TotalsRow(txs, bounds) ==
    [null |-> InRange(txs, bounds) = {},
     income |-> SumAmounts({t \in InRange(txs, bounds) : t.amount >= 0}),
     expenses |-> SumAmounts({t \in InRange(txs, bounds) : t.amount < 0})]

(* As MonthlyTotals, had Math.abs been left out. *)
MonthlyTotalsSigned(row) ==
    LET income == IF row.null THEN 0 ELSE row.income
        expenses == IF row.null THEN 0 ELSE row.expenses
    IN [income |-> income, expenses |-> expenses, balance |-> income - expenses]

(* income = row?.income ?? 0; expenses = Math.abs(row?.expenses ?? 0) *)
MonthlyTotals(row) ==
    LET income == IF row.null THEN 0 ELSE row.income
        expenses == Abs(IF row.null THEN 0 ELSE row.expenses)
    IN [income |-> income, expenses |-> expenses, balance |-> income - expenses]

(* The aggregate query resolves.  monthBounds, awaited before it, reads
   nothing but its argument and the device's time zone. *)
FmtSelect(p) ==
    /\ pc[p] = "fmt_select"
    /\ LET c == call[p] IN
       IF ~tables
       THEN Settle(p, c, "nosuchtable", {})
       ELSE Settle(p, c, "none",
                   {MonthlyTotals(TotalsRow(transactions, monthBounds(c.target, c.tz)))})
    /\ UNCHANGED <<connVars, storeVars, calls, ctxVars>>

(* As CategoryGroups, had the statement had no WHERE clause. *)
CategoryGroupsOfAllTime(txs, cats, bounds) ==
    {[category_id |-> c.id, category_name |-> c.name, category_type |-> c.type,
      total |-> SumAmounts({t \in txs : t.categoryId = c.id})]
        : c \in {c \in cats : \E t \in txs : t.categoryId = c.id}}

(* FROM transactions t JOIN categories c ON c.id = t.category_id WHERE ...
   GROUP BY c.id, c.name, c.type: one row for each category joined to a
   row in range. *)
CategoryGroups(txs, cats, bounds) ==
    {[category_id |-> c.id, category_name |-> c.name, category_type |-> c.type,
      total |-> SumAmounts({t \in InRange(txs, bounds) : t.categoryId = c.id})]
        : c \in {c \in cats : \E t \in InRange(txs, bounds) : t.categoryId = c.id}}

(* The place of a type in the order of texts: 'income' comes after 'expense'. *)
TypeOrder(type) == IF type = "income" THEN 2 ELSE 1

(* As InOrder, had the rows of one type been ordered by the positive total
   that is reported. *)
InOrderByReportedTotal(a, b) ==
    \/ a.category_type = "income" /\ b.category_type = "expense"
    \/ a.category_type = b.category_type /\ Abs(a.total) >= Abs(b.total)

(* ORDER BY c.type DESC, total DESC: a may stand before b. *)
InOrder(a, b) ==
    \/ TypeOrder(a.category_type) > TypeOrder(b.category_type)
    \/ a.category_type = b.category_type /\ a.total >= b.total

(* The orders in which the statement may return its rows. *)
Orderings(rows) ==
    {s \in [1..Cardinality(rows) -> rows] :
        \A i, j \in 1..Cardinality(rows) : i < j => (s[i] # s[j] /\ InOrder(s[i], s[j]))}

(* As ReportedTotal, had the sum been passed on as stored. *)
ReportedTotalAsStored(row) == row.total

(* total: row.category_type === 'expense' ? -row.total : row.total *)
ReportedTotal(row) == IF row.category_type = "expense" THEN -row.total ELSE row.total

(* rows.map(...), lines 428-433 *)
MapCategoryTotals(rows) ==
    [i \in 1..Len(rows) |->
        [categoryId |-> rows[i].category_id, categoryName |-> rows[i].category_name,
         categoryType |-> rows[i].category_type, total |-> ReportedTotal(rows[i])]]

(* The grouped query resolves, its rows in one of the orders ORDER BY
   allows, and the rows are mapped. *)
FmcSelect(p) ==
    /\ pc[p] = "fmc_select"
    /\ LET c == call[p] IN
       IF ~tables
       THEN Settle(p, c, "nosuchtable", {})
       ELSE \E rows \in Orderings(CategoryGroups(transactions, categories,
                                                 monthBounds(c.target, c.tz))) :
               Settle(p, c, "none", {MapCategoryTotals(rows)})
    /\ UNCHANGED <<connVars, storeVars, calls, ctxVars>>

-----------------------------------------------------------------------------
(* fetchCategories, lines 98-111.                                          *)

(* The characters of the names in the order of their codes, which is the
   order in which SQLite compares the texts of a column without a
   collation. *)
Ascii ==
    <<" ", "#", "0", "1", "2", "3", "4", "5", "6", "7", "8", "9",
      "A", "B", "C", "D", "E", "F", "G", "H", "I", "J", "K", "L", "M",
      "N", "O", "P", "Q", "R", "S", "T", "U", "V", "W", "X", "Y", "Z",
      "a", "b", "c", "d", "e", "f", "g", "h", "i", "j", "k", "l", "m",
      "n", "o", "p", "q", "r", "s", "t", "u", "v", "w", "x", "y", "z">>

CharCode(ch) == CHOOSE i \in DOMAIN Ascii : Ascii[i] = ch

(* a <= b as texts: after a common beginning a ends, or has the lesser
   character. *)
TextLeq(a, b) ==
    \E k \in 0..Len(a) :
        /\ k <= Len(b)
        /\ \A i \in 1..k : a[i] = b[i]
        /\ \/ k = Len(a)
           \/ k < Len(b) /\ CharCode(a[k + 1]) < CharCode(b[k + 1])

(* As CategoryPrecedes, had the statement been ORDER BY type ASC, name ASC. *)
CategoryPrecedesTypeAscending(a, b) ==
    \/ TypeOrder(a.type) < TypeOrder(b.type)
    \/ a.type = b.type /\ TextLeq(a.name, b.name)

(* ORDER BY type DESC, name ASC: a may stand before b. *)
CategoryPrecedes(a, b) ==
    \/ TypeOrder(a.type) > TypeOrder(b.type)
    \/ a.type = b.type /\ TextLeq(a.name, b.name)

RECURSIVE CategoryOrderings(_)
CategoryOrderings(rows) ==
    IF rows = {} THEN {<<>>}
    ELSE UNION {{<<r>> \o s : s \in CategoryOrderings(rows \ {r})}
                  : r \in {r \in rows : \A q \in rows : CategoryPrecedes(r, q)}}

FcSelect(p) ==
    /\ pc[p] = "fc_select"
    /\ LET c == call[p] IN
       IF ~tables
       THEN Settle(p, c, "nosuchtable", {})
       ELSE \E rows \in CategoryOrderings(categories) : Settle(p, c, "none", {rows})
    /\ UNCHANGED <<connVars, storeVars, calls, ctxVars>>

(* The reads that write nothing and are not part of Step. *)
ReportStep(p) == FmtSelect(p) \/ FmcSelect(p) \/ FrSelect(p) \/ FcSelect(p)

-----------------------------------------------------------------------------
(* The store call a caller is suspended at rejects for a reason of the
   storage layer (disk full, I/O error, database locked): nothing is
   written, and the rejection propagates to the caller.  getDatabase has
   no handler, so databaseInstance keeps what it was assigned. *)
Fault(p) ==
    /\ pc[p] \notin {"idle", "done"}
    /\ Settle(p, call[p], "storage", {})
    /\ UNCHANGED <<connVars, storeVars, calls, ctxVars>>

Step(p) ==
    \/ Open(p) \/ Schema(p) \/ Seed(p)
    \/ CcInsert(p) \/ CcSelect(p)
    \/ UcUpdate(p) \/ UcCascade(p) \/ UcSelect(p)
    \/ CtLookup(p) \/ CtInsert(p) \/ CtSelect(p)
    \/ UtLookup(p) \/ UtUpdate(p) \/ UtSelect(p)
    \/ DtDelete(p) \/ FtSelect(p)
    \/ Return(p)

-----------------------------------------------------------------------------
(* The callers' inputs.                                                    *)

NameInputs == {<<" ">>, <<"F">>, <<" ","F"," ">>, <<"f">>, Salary}
ColorInputs == {<<>>, <<"#","1">>}
AmountInputs == {-2, 0, 3}
CategoryIdInputs == {NULL, 1, 4, 99}
UpdateCategoryIdInputs == {1, 4, 99}
TransactionIdInputs == {1, 2}

CategoryCalls ==
    {Input("createCategory", NULL, n, t, k, 0, NULL)
        : n \in NameInputs, t \in CategoryType, k \in ColorInputs}
    \cup {Input("updateCategory", i, n, t, k, 0, NULL)
        : i \in UpdateCategoryIdInputs, n \in NameInputs, t \in CategoryType, k \in ColorInputs}

TransactionCalls ==
    {Input("createTransaction", NULL, <<>>, t, <<>>, a, c)
        : t \in CategoryType, a \in AmountInputs, c \in CategoryIdInputs}
    \cup {Input("updateTransaction", i, <<>>, t, <<>>, a, c)
        : i \in TransactionIdInputs, t \in CategoryType, a \in AmountInputs, c \in CategoryIdInputs}
    \cup {Input("deleteTransaction", i, <<>>, "income", <<>>, 0, NULL) : i \in TransactionIdInputs}

OtherCalls ==
    {Input("initializeDatabase", NULL, <<>>, "income", <<>>, 0, NULL),
     Input("fetchTransactions", NULL, <<>>, "income", <<>>, 0, NULL)}

Inputs == CategoryCalls \cup TransactionCalls \cup OtherCalls

(* What two overlapping callers ask for. *)
ConcInputs ==
    {Input("initializeDatabase", NULL, <<>>, "income", <<>>, 0, NULL),
     Input("fetchTransactions", NULL, <<>>, "income", <<>>, 0, NULL),
     Input("createCategory", NULL, <<"F">>, "expense", <<>>, 0, NULL),
     Input("updateCategory", 4, Groceries, "income", <<>>, 0, NULL),
     Input("createTransaction", NULL, <<>>, "expense", <<>>, 3, 4),
     Input("updateTransaction", 1, <<>>, "expense", <<>>, 3, 99),
     Input("deleteTransaction", 1, <<>>, "income", <<>>, 0, NULL)}

-----------------------------------------------------------------------------
(* Specifications.                                                         *)

(* One caller, one call at a time, a store that never fails. *)
Next ==
    \/ \E in \in Inputs : Call(1, in, MaxCallsSeq)
    \/ Step(1)

Spec == Init /\ [][Next]_vars

(* One caller, one call at a time, a store whose calls may reject. *)
NextFault ==
    \/ \E in \in Inputs : Call(1, in, MaxCallsFault)
    \/ Step(1)
    \/ Fault(1)

SpecFault == Init /\ [][NextFault]_vars

(* Two callers whose calls overlap, a store that never fails. *)
NextConc ==
    \E p \in Procs :
        \/ \E in \in ConcInputs : Call(p, in, MaxCallsConc)
        \/ Step(p)

SpecConc == Init /\ [][NextConc]_vars

-----------------------------------------------------------------------------
(* A process that starts over the file earlier runs of the app left.       *)

MaxCallsStored == 2
MaxCallsReport == 1

(* A reading of the clock during an earlier run. *)
Earlier == Instant(Date(2024, 2, 10), 9)

(* The categories seedDefaultCategories leaves when it runs over cats. *)
RECURSIVE SeedAll(_, _, _, _)
SeedAll(cats, seq, i, now) ==
    IF i > Len(DEFAULT_CATEGORIES) THEN cats
    ELSE LET r == InsertOrIgnore(cats, seq, SeedParameters(i, now))
         IN SeedAll(r.categories, r.seq, i + 1, now)

(* The category sets earlier runs left: the defaults as seeded; the
   defaults after updateCategory renamed Salary to F and made Groceries an
   income category of another color; the defaults and a category F that
   createCategory added. *)
StoredCategories ==
    LET seeded == SeedAll({}, 0, 1, Earlier) IN
    { seeded,
      { IF c.id = 1 THEN [c EXCEPT !.name = <<"F">>, !.type = "expense",
                                   !.color = <<"#","1">>]
        ELSE IF c.id = 4 THEN [c EXCEPT !.type = "income", !.color = <<"#","1">>]
        ELSE c : c \in seeded },
      seeded \cup {[id |-> 11, name |-> <<"F">>, type |-> "expense",
                    color |-> <<"#","c","6","2","8","2","8">>, createdAt |-> Earlier]} }

(* The transactions earlier calls of createTransaction left beside cats,
   each with the sign of its effective type: two of Groceries on the first
   and the last day of March, one without a category, one of Salary on the
   last day of February, and one of Housing, entered later than the others
   and dated as the one without a category. *)
StoredTransactions(cats) ==
    LET Row(id, amount, day, categoryId, callerType, createdAt) ==
            [id |-> id,
             amount |-> NormalizeAmount(IF categoryId = NULL THEN callerType
                                        ELSE CategoryById(cats, categoryId).type, amount),
             occurredOn |-> day, categoryId |-> categoryId,
             createdAt |-> createdAt, callerType |-> callerType]
    IN { Row(1, 200, Date(2024, 3, 1), 4, "expense", Earlier),
         Row(2, 1000, Date(2024, 3, 15), NULL, "income", Earlier),
         Row(3, 50, Date(2024, 3, 31), 4, "expense", Earlier),
         Row(4, 7, Date(2024, 2, 29), 1, "income", Earlier),
         Row(5, 30, Date(2024, 3, 15), 5, "expense", Instant(Date(2024, 2, 11), 9)) }

(* The transactions of a long use of the app: one more than
   fetchTransactions returns when it is given no limit, all without a
   category, one for each of as many days of the year before. *)
ManyTransactions ==
    {[id |-> i, amount |-> 1,
      occurredOn |-> Date(2023, 1 + ((i - 1) \div 28), 1 + ((i - 1) % 28)),
      categoryId |-> NULL, createdAt |-> Earlier, callerType |-> "income"]
        : i \in 1..(DefaultLimit + 1)}

(* The state of a process at its start: no handle yet, and on the device
   either no file (a first start) or a file of earlier runs, some of its
   transactions deleted since, or the file of a long use. *)
InitStored ==
    /\ context = Mounted
    /\ task = [p \in Procs |-> NoTask]
    /\ screen = ScreenMounted
    /\ form = FormsMounted
    /\ saves = <<>>
    /\ databaseInstance = NULL
    /\ opened = 0
    /\ fkOn = {}
    /\ schemaRuns = 0
    /\ seedRuns = 0
    /\ pc = [p \in Procs |-> "idle"]
    /\ call = [p \in Procs |-> NoCall]
    /\ calls = 0
    /\ \/ /\ tables = FALSE
          /\ categories = {}
          /\ transactions = {}
          /\ sqlite_sequence = [categories |-> 0, transactions |-> 0]
       \/ /\ tables = TRUE
          /\ categories \in StoredCategories
          /\ transactions \in SUBSET StoredTransactions(categories)
          /\ sqlite_sequence =
                 [categories |-> Cardinality(categories),
                  transactions |-> Cardinality(StoredTransactions(categories))]
       \/ /\ tables = TRUE
          /\ categories = SeedAll({}, 0, 1, Earlier)
          /\ transactions = ManyTransactions
          /\ sqlite_sequence =
                 [categories |-> Cardinality(categories),
                  transactions |-> Cardinality(ManyTransactions)]

(* What the caller asks for over such a file. *)
StoredInputs ==
    {Input("initializeDatabase", NULL, <<>>, "income", <<>>, 0, NULL),
     Input("fetchTransactions", NULL, <<>>, "income", <<>>, 0, NULL),
     Input("createCategory", NULL, <<"F">>, "expense", <<>>, 0, NULL),
     Input("updateCategory", 4, Groceries, "income", <<>>, 0, NULL),
     Input("createTransaction", NULL, <<>>, "expense", <<>>, 3, 1),
     Input("createTransaction", NULL, <<>>, "expense", <<>>, 3, 99),
     Input("updateTransaction", 9, <<>>, "expense", <<>>, 3, 4),
     Input("updateTransaction", 1, <<>>, "expense", <<>>, 3, 99)}
    \cup {[Input("updateTransaction", 1, <<>>, t, <<>>, a, c)
              EXCEPT !.input_occurredOn = Date(2024, 3, 2)]
            : t \in CategoryType, a \in {-2, 3}, c \in {NULL, 1, 4}}
    \cup {Input("deleteTransaction", i, <<>>, "income", <<>>, 0, NULL) : i \in {1, 9}}

NextStored ==
    \/ \E in \in StoredInputs : Call(1, in, MaxCallsStored)
    \/ Step(1)

SpecStored == InitStored /\ [][NextStored]_vars

(* The instants and time zones the monthly reports are asked at. *)
TargetInputs ==
    {Instant(Date(2024, 3, 15), 12), Instant(Date(2024, 3, 31), 23),
     Instant(Date(2024, 3, 31), 12), Instant(Date(2024, 1, 1), 0)}
ZoneInputs == {-5, 0, 2}

(* The ranges and limits the lists of transactions are asked with: the
   first half of March, its second half, the days around the end of
   February, a range whose end lies before its start, and two years. *)
RangeInputs ==
    {<<Date(2024, 3, 1), Date(2024, 3, 15)>>, <<Date(2024, 3, 15), Date(2024, 3, 31)>>,
     <<Date(2024, 2, 29), Date(2024, 3, 1)>>, <<Date(2024, 3, 16), Date(2024, 3, 2)>>,
     <<Date(2023, 1, 1), Date(2024, 12, 31)>>}
LimitInputs == {{}, {0}, {1}, {2}}

ReportInputs ==
    {[Input(op, NULL, <<>>, "income", <<>>, 0, NULL) EXCEPT !.target = t, !.tz = z]
        : op \in {"fetchMonthlyTotals", "fetchMonthlyTotalsByCategory"},
          t \in TargetInputs, z \in ZoneInputs}
    \cup {[Input("fetchTransactionsForRange", NULL, <<>>, "income", <<>>, 0, NULL)
              EXCEPT !.startDate = r[1], !.endDate = r[2]] : r \in RangeInputs}
    \cup {[Input("fetchTransactions", NULL, <<>>, "income", <<>>, 0, NULL)
              EXCEPT !.limit = l] : l \in LimitInputs}
    \cup {Input("fetchCategories", NULL, <<>>, "income", <<>>, 0, NULL)}

NextReport ==
    \/ \E in \in ReportInputs : Call(1, in, MaxCallsReport)
    \/ Open(1) \/ Schema(1) \/ Seed(1)
    \/ ReportStep(1)
    \/ FtSelect(1)
    \/ Return(1)

SpecReport == InitStored /\ [][NextReport]_vars

-----------------------------------------------------------------------------
(* The budget context, src/unnamed/part_000 lines 439-578.  A callback of  *)
(* BudgetProvider runs the operations above one await at a time; a call of *)
(* the setter of a state hook takes effect as it is made.                  *)

MaxCallsContext == 2

(* The callback that wraps an operation, lines 476-544. *)
Wrapper(op) ==
    CASE op = "createTransaction" -> "addTransaction"
      [] op = "updateTransaction" -> "editTransaction"
      [] op = "deleteTransaction" -> "removeTransaction"
      [] op = "createCategory" -> "addCategory"
      [] op = "updateCategory" -> "editCategory"

(* What the catch block of a callback passes to setLastError: a fixed text
   for the transactions (lines 483, 497, 511), the message of the error
   for the categories (lines 525, 539), every rejection of the operations
   and of the store being an Error. *)
Message(op, error) ==
    CASE op = "addTransaction" -> "Unable to save transaction."
      [] op = "editTransaction" -> "Unable to update transaction."
      [] op = "removeTransaction" -> "Unable to delete transaction."
      [] op \in {"addCategory", "editCategory"} -> error

(* The four reads of Promise.all, lines 453-458, each called without
   arguments. *)
LoadReads ==
    {"fetchCategories", "fetchTransactions", "fetchMonthlyTotals",
     "fetchMonthlyTotalsByCategory"}

(* The callback calls an exported function: getDatabase tests
   databaseInstance synchronously, as in Call. *)
Invoke(p, in) ==
    IF databaseInstance = NULL
    THEN Set(p, "open", in)
    ELSE LET e == Enter(in, databaseInstance, Store) IN Set(p, e.pc, e.call)

(* loadData up to its first await, lines 448-452. *)
StartLoad(p, t) ==
    /\ context' = [context EXCEPT !.loading = TRUE, !.lastError = "null"]
    /\ task' = [task EXCEPT ![p] = [t EXCEPT !.stage = "load_init", !.pending = LoadReads,
                                              !.got = <<>>, !.loads = t.loads + 1]]
    /\ Invoke(p, Input("initializeDatabase", NULL, <<>>, "income", <<>>, 0, NULL))

(* The catch and finally blocks of loadData, lines 464-469; loadData
   resolves, and so does the callback that awaited it. *)
LoadFailed(p) ==
    /\ context' = [context EXCEPT !.lastError = "Unable to load budget data.",
                                  !.loading = FALSE]
    /\ task' = [task EXCEPT ![p].stage = "settled", ![p].outcome = "resolved",
                            ![p].loadError = call[p].error]
    /\ Set(p, "idle", NoCall)

(* A component calls one of the five writing callbacks. *)
Mutate(p, in, max) ==
    /\ pc[p] = "idle"
    /\ task[p].stage \in {"idle", "settled"}
    /\ calls < max
    /\ calls' = calls + 1
    /\ task' = [task EXCEPT ![p] = [NoTask EXCEPT !.op = Wrapper(in.op), !.stage = "write",
                                                  !.before = context]]
    /\ Invoke(p, in)
    /\ UNCHANGED <<uiVars, connVars, storeVars, context>>

(* loadData is called as such: by the effect of line 472, or as refresh. *)
Refresh(p, max) ==
    /\ pc[p] = "idle"
    /\ task[p].stage \in {"idle", "settled"}
    /\ calls < max
    /\ calls' = calls + 1
    /\ StartLoad(p, [NoTask EXCEPT !.op = "refresh", !.before = context])
    /\ UNCHANGED <<uiVars, connVars, storeVars>>

(* As WriteSettled, had the callback awaited loadData after its try block
   instead of within it. *)
WriteSettledThenLoads(p) ==
    /\ task[p].stage = "write"
    /\ pc[p] = "done"
    /\ StartLoad(p, [task[p] EXCEPT !.error = call[p].error])
    /\ UNCHANGED <<uiVars, connVars, storeVars, calls>>

(* The operation a callback awaited has settled: when it rejected, the
   catch block sets lastError and throws the error on; when it resolved,
   loadData is called. *)
WriteSettled(p) ==
    /\ task[p].stage = "write"
    /\ pc[p] = "done"
    /\ IF call[p].error # "none"
       THEN /\ context' = [context EXCEPT !.lastError = Message(task[p].op, call[p].error)]
            /\ task' = [task EXCEPT ![p].stage = "settled", ![p].outcome = "rejected",
                                    ![p].error = call[p].error]
            /\ Set(p, "idle", NoCall)
       ELSE StartLoad(p, task[p])
    /\ UNCHANGED <<uiVars, connVars, storeVars, calls>>

(* initializeDatabase has settled: the four reads are called, or the catch
   block is entered. *)
LoadInitSettled(p) ==
    /\ task[p].stage = "load_init"
    /\ pc[p] = "done"
    /\ IF call[p].error # "none"
       THEN LoadFailed(p)
       ELSE /\ task' = [task EXCEPT ![p].stage = "load_reads"]
            /\ Set(p, "idle", NoCall)
            /\ UNCHANGED context
    /\ UNCHANGED <<uiVars, connVars, storeVars, calls>>

(* The store takes up one of the reads in flight; the four run one store
   call each, in an order the callback does not decide. *)
LoadRead(p) ==
    /\ task[p].stage = "load_reads"
    /\ pc[p] = "idle"
    /\ \E read \in task[p].pending :
          /\ task' = [task EXCEPT ![p].pending = task[p].pending \ {read}]
          /\ Invoke(p, Input(read, NULL, <<>>, "income", <<>>, 0, NULL))
    /\ UNCHANGED <<uiVars, connVars, storeVars, calls, context>>

(* The value a resolved read returned. *)
Value(c) == CHOOSE v \in c.result : TRUE

(* As LoadReadSettled, had each read passed its value to its setter as it
   resolved instead of the four being set after Promise.all. *)
LoadReadSettledSetsEach(p) ==
    /\ task[p].stage = "load_reads"
    /\ pc[p] = "done"
    /\ LET got == [r \in DOMAIN task[p].got \cup {call[p].op} |->
                      IF r = call[p].op THEN Value(call[p]) ELSE task[p].got[r]]
           set == [context EXCEPT
                      !.categories =
                          IF call[p].op = "fetchCategories" THEN Value(call[p]) ELSE @,
                      !.transactions =
                          IF call[p].op = "fetchTransactions" THEN Value(call[p]) ELSE @,
                      !.monthlyTotals =
                          IF call[p].op = "fetchMonthlyTotals" THEN Value(call[p]) ELSE @,
                      !.categoryTotals =
                          IF call[p].op = "fetchMonthlyTotalsByCategory"
                          THEN Value(call[p]) ELSE @]
       IN
       IF call[p].error # "none"
       THEN LoadFailed(p)
       ELSE IF task[p].pending # {}
       THEN /\ task' = [task EXCEPT ![p].got = got]
            /\ Set(p, "idle", NoCall)
            /\ context' = set
       ELSE /\ context' = [set EXCEPT !.loading = FALSE]
            /\ task' = [task EXCEPT ![p].stage = "settled", ![p].outcome = "resolved",
                                    ![p].got = got]
            /\ Set(p, "idle", NoCall)
    /\ UNCHANGED <<uiVars, connVars, storeVars, calls>>

(* A read has settled.  When it rejected, Promise.all rejects and the
   catch block is entered; when the last of the four resolved, the four
   setters are called with the four values, and loading is set to false. *)
LoadReadSettled(p) ==
    /\ task[p].stage = "load_reads"
    /\ pc[p] = "done"
    /\ LET got == [r \in DOMAIN task[p].got \cup {call[p].op} |->
                      IF r = call[p].op THEN Value(call[p]) ELSE task[p].got[r]]
       IN
       IF call[p].error # "none"
       THEN LoadFailed(p)
       ELSE IF task[p].pending # {}
       THEN /\ task' = [task EXCEPT ![p].got = got]
            /\ Set(p, "idle", NoCall)
            /\ UNCHANGED context
       ELSE /\ context' = [context EXCEPT
                               !.categories = got["fetchCategories"],
                               !.transactions = got["fetchTransactions"],
                               !.monthlyTotals = got["fetchMonthlyTotals"],
                               !.categoryTotals = got["fetchMonthlyTotalsByCategory"],
                               !.loading = FALSE]
            /\ task' = [task EXCEPT ![p].stage = "settled", ![p].outcome = "resolved",
                                    ![p].got = got]
            /\ Set(p, "idle", NoCall)
    /\ UNCHANGED <<uiVars, connVars, storeVars, calls>>

(* What the components ask the context for. *)
ContextInputs ==
    {Input("createCategory", NULL, <<"F">>, "expense", <<>>, 0, NULL),
     Input("createCategory", NULL, <<" ">>, "expense", <<>>, 0, NULL),
     Input("updateCategory", 4, Groceries, "income", <<>>, 0, NULL),
     Input("updateCategory", 4, Salary, "income", <<>>, 0, NULL),
     Input("createTransaction", NULL, <<>>, "expense", <<>>, 3, 4),
     Input("createTransaction", NULL, <<>>, "expense", <<>>, 3, 99),
     Input("updateTransaction", 1, <<>>, "income", <<>>, 3, 4),
     Input("updateTransaction", 9, <<>>, "income", <<>>, 3, NULL),
     Input("deleteTransaction", 1, <<>>, "income", <<>>, 0, NULL)}

(* The app starts on a device without a file, or over a file that holds
   the default categories and the five transactions of earlier runs, the
   one without a category deleted since or not. *)
InitContext ==
    /\ InitStored
    /\ tables => /\ categories = SeedAll({}, 0, 1, Earlier)
                 /\ {t \in StoredTransactions(categories) : t.categoryId # NULL}
                        \subseteq transactions
                 /\ transactions \subseteq StoredTransactions(categories)

(* One callback at a time, over a store whose calls may reject. *)
NextContext ==
    \/ \E in \in ContextInputs : Mutate(1, in, MaxCallsContext)
    \/ Refresh(1, MaxCallsContext)
    \/ Open(1) \/ Schema(1) \/ Seed(1)
    \/ CcInsert(1) \/ CcSelect(1)
    \/ UcUpdate(1) \/ UcCascade(1) \/ UcSelect(1)
    \/ CtLookup(1) \/ CtInsert(1) \/ CtSelect(1)
    \/ UtLookup(1) \/ UtUpdate(1) \/ UtSelect(1)
    \/ DtDelete(1)
    \/ FcSelect(1) \/ FtSelect(1) \/ FmtSelect(1) \/ FmcSelect(1)
    \/ Fault(1)
    \/ WriteSettled(1) \/ LoadInitSettled(1) \/ LoadRead(1) \/ LoadReadSettled(1)

SpecContext == InitContext /\ [][NextContext]_vars

(* Callbacks that overlap: a component calls a writing callback of the
   context (caller 2) while a loadData called as such, by the effect of
   line 472 or as refresh (caller 1), may still be in flight.  The store
   never fails. *)
MaxCallsOverlap == 2

OverlapInputs ==
    {Input("createTransaction", NULL, <<>>, "expense", <<>>, 3, 4),
     Input("deleteTransaction", 1, <<>>, "income", <<>>, 0, NULL)}

(* The app starts over the file of earlier runs, its five transactions
   kept. *)
InitOverlap ==
    /\ InitContext
    /\ tables
    /\ transactions = StoredTransactions(categories)

NextOverlap ==
    \/ \E in \in OverlapInputs : Mutate(2, in, MaxCallsOverlap)
    \/ Refresh(1, MaxCallsOverlap)
    \/ \E p \in Procs :
          \/ Open(p) \/ Schema(p) \/ Seed(p)
          \/ CtLookup(p) \/ CtInsert(p) \/ CtSelect(p)
          \/ DtDelete(p)
          \/ FcSelect(p) \/ FtSelect(p) \/ FmtSelect(p) \/ FmcSelect(p)
          \/ WriteSettled(p) \/ LoadInitSettled(p) \/ LoadRead(p) \/ LoadReadSettled(p)

SpecOverlap == InitOverlap /\ [][NextOverlap]_vars

-----------------------------------------------------------------------------
(* The Transactions screen, src/unnamed/part_000 lines 286-365, with its   *)
(* TransactionForm and CategoryForm.  A press runs its handler up to the   *)
(* first await and the render and effects that follow; the promise that    *)
(* onSubmit returned settles in a later step, as the callback of the       *)
(* context it awaits resolves or rejects.                                  *)

MaxSubmissions == 3

(* What is left alone by the screen. *)
appVars == <<connVars, storeVars, pc, call, calls, context, task>>

(* The visible prop of a form, part_000 lines 338 and 352. *)
Visible(f) ==
    IF f = "TransactionForm" THEN screen.formMode # "null"
    ELSE screen.isCategoryModalVisible

(* The effect of TransactionForm.tsx lines 45-65 and CategoryForm.tsx
   lines 29-44, run after a render in which visible, mode or the record
   edited changed: when the form is visible its fields are reset and
   setIsSubmitting(false) is called. *)
Shown(f) == [form EXCEPT ![f].isSubmitting = FALSE]

(* The buttons of the screen lie under a form that is visible. *)
NoFormVisible == \A f \in Forms : ~Visible(f)

(* openCreateForm, lines 296-299. *)
OpenCreateForm ==
    /\ NoFormVisible
    /\ screen' = [screen EXCEPT !.activeTransaction = NULL, !.formMode = "create"]
    /\ form' = Shown("TransactionForm")
    /\ UNCHANGED <<saves, appVars>>

(* openEditForm, lines 301-304, called with an item of the list. *)
OpenEditForm(transaction) ==
    /\ NoFormVisible
    /\ screen' = [screen EXCEPT !.activeTransaction = transaction, !.formMode = "edit"]
    /\ form' = Shown("TransactionForm")
    /\ UNCHANGED <<saves, appVars>>

(* The button New Category, line 320. *)
OpenCategoryModal ==
    /\ NoFormVisible
    /\ screen' = [screen EXCEPT !.isCategoryModalVisible = TRUE]
    /\ form' = Shown("CategoryForm")
    /\ UNCHANGED <<saves, appVars>>

(* The onClose prop: closeTransactionForm, lines 305-308, and line 353.
   The render that follows has visible false, and the effect returns. *)
Closed(f) ==
    IF f = "TransactionForm"
    THEN [screen EXCEPT !.activeTransaction = NULL, !.formMode = "null"]
    ELSE [screen EXCEPT !.isCategoryModalVisible = FALSE]

(* The callback of the context the onSubmit prop awaits, lines 342-348 and
   355-357, id being transaction?.id. *)
OnSubmit(f) ==
    IF f = "CategoryForm" THEN "addCategory"
    ELSE IF screen.formMode = "edit" /\ screen.activeTransaction # NULL
    THEN "editTransaction"
    ELSE "addTransaction"

(* What handleSubmit finds in the fields: the title of the alert it shows
   and returns with, or "ok".  TransactionForm.tsx lines 98-111,
   CategoryForm.tsx lines 54-57. *)
Fields(f) ==
    IF f = "TransactionForm"
    THEN {"ok", "Missing description", "Invalid amount", "Invalid date"}
    ELSE {"ok", "Missing name"}

(* The button Save or Update is pressed: handleSubmit up to its await,
   TransactionForm.tsx lines 94-125 and 222-226, CategoryForm.tsx lines
   52-61.  The button is disabled while isSubmitting is true. *)
PressSave(f, fields) ==
    /\ Visible(f)
    /\ ~form[f].isSubmitting
    /\ IF fields # "ok"
       THEN /\ form' = [form EXCEPT ![f].alert = fields]
            /\ UNCHANGED saves
       ELSE /\ Len(saves) < MaxSubmissions
            /\ form' = [form EXCEPT ![f].isSubmitting = TRUE]
            /\ saves' = Append(saves, [form |-> f, callback |-> OnSubmit(f),
                                       outcome |-> "pending", closed |-> FALSE])
    /\ UNCHANGED <<screen, appVars>>

(* The button Cancel, disabled while isSubmitting is true:
   TransactionForm.tsx line 221, CategoryForm.tsx line 125. *)
PressCancel(f) ==
    /\ Visible(f)
    /\ ~form[f].isSubmitting
    /\ screen' = Closed(f)
    /\ UNCHANGED <<form, saves, appVars>>

(* onRequestClose of the Modal, TransactionForm.tsx line 136 and
   CategoryForm.tsx line 75: the back button of the device, or the sheet
   dragged down. *)
RequestClose(f) ==
    /\ Visible(f)
    /\ screen' = Closed(f)
    /\ UNCHANGED <<form, saves, appVars>>

(* The promise of the i-th onSubmit settles: handleSubmit from its await
   on, TransactionForm.tsx lines 125-132, CategoryForm.tsx lines 61-71. *)
SaveSettles(i, outcome) ==
    /\ i \in DOMAIN saves
    /\ saves[i].outcome = "pending"
    /\ LET f == saves[i].form IN
       IF outcome = "resolved"
       THEN /\ screen' = Closed(f)
            /\ form' = [form EXCEPT ![f].isSubmitting = FALSE]
            /\ saves' = [saves EXCEPT ![i].outcome = "resolved", ![i].closed = TRUE]
       ELSE /\ form' = [form EXCEPT ![f].isSubmitting = FALSE,
                                     ![f].alert = IF f = "TransactionForm"
                                                  THEN "Unable to save transaction"
                                                  ELSE "Unable to save category"]
            /\ saves' = [saves EXCEPT ![i].outcome = "rejected"]
            /\ UNCHANGED screen
    /\ UNCHANGED appVars

NextForms ==
    \/ OpenCreateForm
    \/ OpenEditForm(1)
    \/ OpenCategoryModal
    \/ \E f \in Forms :
          \/ \E fields \in Fields(f) : PressSave(f, fields)
          \/ PressCancel(f)
          \/ RequestClose(f)
    \/ \E i \in 1..MaxSubmissions, outcome \in {"resolved", "rejected"} :
          SaveSettles(i, outcome)

SpecForms == Init /\ [][NextForms]_vars

-----------------------------------------------------------------------------
(* Properties.                                                             *)

Settled(p, op) == pc[p] = "done" /\ call[p].op = op /\ call[p].db # NULL
Succeeded(p, op) == Settled(p, op) /\ call[p].error = "none"

(* The records of the list a call returned. *)
Records(p) == UNION {{list[i] : i \in DOMAIN list} : list \in call[p].result}

CategoryNames(cats) == {c.name : c \in cats}

(* The type that decides a transaction's sign: its category's, or the one
   its caller gave last when it has no category. *)
EffectiveType(t, cats) ==
    IF t.categoryId = NULL THEN t.callerType
    ELSE IF t.categoryId \in CategoryIds(cats)
         THEN CategoryById(cats, t.categoryId).type ELSE "null"

(* C1: between calls, every stored transaction's amount is negative when its
   effective type is expense and non-negative when it is income.  Stated
   here in the reading most favourable to the claim: a stored amount of
   zero is counted as consistent with either type. *)
C1_SignInvariant ==
    (\A p \in Procs : pc[p] \in {"idle", "done"}) =>
        \A t \in transactions :
            t.amount # 0 =>
                /\ EffectiveType(t, categories) = "expense" => t.amount < 0
                /\ EffectiveType(t, categories) = "income" => t.amount >= 0

(* C2: a successful updateCategory(id, input) leaves every transaction that
   was linked to id with -|amount| (new type expense) or |amount| (income),
   and every other transaction as it was. *)
C2_CascadeRewritesLinked ==
    \A p \in Procs :
        Succeeded(p, "updateCategory") =>
            /\ TransactionIds(transactions) = TransactionIds(call[p].pre.transactions)
            /\ \A t \in call[p].pre.transactions :
                  LET now == TransactionById(transactions, t.id) IN
                  IF t.categoryId = call[p].id
                  THEN /\ now.amount = IF call[p].type = "expense"
                                       THEN -Abs(t.amount) ELSE Abs(t.amount)
                       /\ now.categoryId = t.categoryId
                  ELSE now = t

(* C2's case: a retyped category with a linked transaction whose sign the
   update turned around. *)
C2_Witness ==
    \E p \in Procs :
        /\ Succeeded(p, "updateCategory")
        /\ \E t \in call[p].pre.transactions :
              /\ t.categoryId = call[p].id
              /\ t.amount # 0
              /\ TransactionById(transactions, t.id).amount = -t.amount

(* C3: a failed updateCategory leaves the category row and all transactions
   exactly as they were before the call. *)
C3_UpdateCategoryAtomic ==
    \A p \in Procs :
        (Settled(p, "updateCategory") /\ call[p].error # "none") =>
            Store = call[p].pre

(* C4: a read never returns a row linked to a category that already carries
   the new type of an updateCategory still in flight while the row's amount
   carries the sign of the old type. *)
C4_NoPartialUpdateObserved ==
    \A p, q \in Procs :
        (Succeeded(p, "fetchTransactions") /\ pc[q] = "uc_cascade") =>
            \A r \in Records(p) :
                (r.categoryId = call[q].id /\ r.categoryType = call[q].type /\ r.amount # 0) =>
                    (call[q].type = "expense" <=> r.amount < 0)

(* C5: the store is opened once, the schema statement is executed once and
   the defaults are seeded once, however many callers start together. *)
C5_SingleInitialization ==
    opened <= 1 /\ schemaRuns <= 1 /\ seedRuns <= 1

(* One call has run to its end. *)
OneCallCompleted == calls >= 2 \/ (calls >= 1 /\ pc[1] \in {"idle", "done"})

(* C6: once one call has completed, no later step opens a store, executes
   the schema or seeds; a later call gets the handle already held; and
   neither its getDatabase nor a whole initializeDatabase changes a row. *)
C6_InitializeIdempotent ==
    [][OneCallCompleted =>
          /\ connVars' = connVars
          /\ (pc[1] = "idle" /\ pc'[1] # "idle") =>
                 (storeVars' = storeVars /\ call'[1].db = databaseInstance)
          /\ (call[1].op = "initializeDatabase" \/ call'[1].op = "initializeDatabase") =>
                 storeVars' = storeVars]_vars

(* C6's case: a second initializeDatabase has settled on a seeded store. *)
C6_Witness ==
    /\ calls >= 2
    /\ Succeeded(1, "initializeDatabase")
    /\ call[1].db = databaseInstance
    /\ opened = 1 /\ schemaRuns = 1 /\ seedRuns = 1
    /\ Cardinality(categories) >= Len(DEFAULT_CATEGORIES)

(* The row a settled createTransaction inserted. *)
InsertedRow(p) == TransactionById(transactions, call[p].rowId)

(* The type createTransaction is to go by: the category's when the id names
   one, the caller's when categoryId is null. *)
TypeToGoBy(p) ==
    IF call[p].categoryId = NULL THEN call[p].type
    ELSE CategoryById(call[p].pre.categories, call[p].categoryId).type

CreatedAgainstKnownCategory(p) ==
    /\ Succeeded(p, "createTransaction")
    /\ call[p].categoryId \in CategoryIds(call[p].pre.categories) \cup {NULL}

(* C7 as claimed: for every input amount, zero included, the stored amount
   is < 0 under expense and >= 0 under income, with magnitude |a|. *)
C7_AsClaimed ==
    \A p \in Procs :
        CreatedAgainstKnownCategory(p) =>
            /\ TypeToGoBy(p) = "expense" => InsertedRow(p).amount < 0
            /\ TypeToGoBy(p) = "income" => InsertedRow(p).amount >= 0
            /\ Abs(InsertedRow(p).amount) = Abs(call[p].amount)

(* C7, amended: the stored amount has magnitude |a|; it is <= 0 under
   expense, and < 0 whenever a is not zero; it is >= 0 under income. *)
C7_CreateNormalizesSign ==
    \A p \in Procs :
        CreatedAgainstKnownCategory(p) =>
            /\ TypeToGoBy(p) = "expense" =>
                   /\ InsertedRow(p).amount <= 0
                   /\ call[p].amount # 0 => InsertedRow(p).amount < 0
            /\ TypeToGoBy(p) = "income" => InsertedRow(p).amount >= 0
            /\ Abs(InsertedRow(p).amount) = Abs(call[p].amount)

(* C7's case: a positive amount sent as income against an expense category
   is stored negative. *)
C7_Witness ==
    \E p \in Procs :
        /\ CreatedAgainstKnownCategory(p)
        /\ call[p].categoryId # NULL
        /\ TypeToGoBy(p) = "expense" /\ call[p].type = "income"
        /\ call[p].amount > 0
        /\ InsertedRow(p).amount = -call[p].amount

(* C8: createTransaction and updateTransaction with a categoryId that names
   no category succeed and store -|amount| for caller type expense, |amount|
   for income. *)
C8_StaleCategoryFallsBack ==
    \A p \in Procs :
        \A op \in {"createTransaction", "updateTransaction"} :
            ( /\ Settled(p, op)
              /\ call[p].categoryId # NULL
              /\ call[p].categoryId \notin CategoryIds(call[p].pre.categories)
              /\ op = "updateTransaction" =>
                     call[p].id \in TransactionIds(call[p].pre.transactions) ) =>
                /\ call[p].error = "none"
                /\ \E t \in transactions :
                      /\ t.id = IF op = "createTransaction" THEN call[p].rowId ELSE call[p].id
                      /\ t.amount = IF call[p].type = "expense"
                                    THEN -Abs(call[p].amount) ELSE Abs(call[p].amount)

(* C9: no two categories carry the same name. *)
C9_NamesUnique ==
    \A c, d \in categories : c.id # d.id => c.name # d.name

(* C9's case: a name already taken was asked for again and refused, with a
   category of the user's beside the defaults. *)
C9_Witness ==
    /\ \E p \in Procs : pc[p] = "done" /\ call[p].error = "duplicate"
    /\ Cardinality(categories) > Len(DEFAULT_CATEGORIES)

(* C10: createCategory whose trimmed name is the stored name of a category
   fails with the duplicate-name error and changes no row; a name that
   differs from every stored name, be it only in case, is added. *)
C10_DuplicateNameRefused ==
    \A p \in Procs :
        (Settled(p, "createCategory") /\ Trim(call[p].input_name) # <<>>) =>
            IF Trim(call[p].input_name) \in CategoryNames(call[p].pre.categories)
            THEN call[p].error = "duplicate" /\ Store = call[p].pre
            ELSE /\ call[p].error = "none"
                 /\ transactions = call[p].pre.transactions
                 /\ \E c \in categories :
                       /\ c.name = Trim(call[p].input_name)
                       /\ c.id \notin CategoryIds(call[p].pre.categories)
                       /\ categories = call[p].pre.categories \cup {c}

(* C10's case: " F " was refused because "F" is stored. *)
C10_Witness ==
    \E p \in Procs :
        /\ Settled(p, "createCategory")
        /\ call[p].error = "duplicate"
        /\ call[p].input_name # Trim(call[p].input_name)
        /\ Cardinality(categories) > Len(DEFAULT_CATEGORIES)
        /\ Store = call[p].pre

(* C11: updateCategory(id, input) whose trimmed name is the name of another
   stored category fails with the duplicate-name error and changes nothing:
   category id keeps its name, type and color, and no transaction changes. *)
C11_TakenNameRefusedOnUpdate ==
    \A p \in Procs :
        ( /\ Settled(p, "updateCategory")
          /\ call[p].id \in CategoryIds(call[p].pre.categories)
          /\ \E c \in call[p].pre.categories :
                 c.id # call[p].id /\ c.name = Trim(call[p].input_name) ) =>
            /\ call[p].error = "duplicate"
            /\ CategoryById(categories, call[p].id) =
                   CategoryById(call[p].pre.categories, call[p].id)
            /\ categories = call[p].pre.categories
            /\ transactions = call[p].pre.transactions

(* C11's case: the refused update would have retyped a category whose
   linked transaction then keeps the sign of the old type. *)
C11_Witness ==
    \E p \in Procs :
        /\ Settled(p, "updateCategory")
        /\ call[p].error = "duplicate"
        /\ CategoryById(categories, call[p].id).type # call[p].type
        /\ \E t \in transactions :
              /\ t.categoryId = call[p].id
              /\ NormalizeAmount(call[p].type, t.amount) # t.amount

(* Empty after trimming: nothing but white space. *)
Blank(s) == \A i \in 1..Len(s) : IsWhiteSpace(s[i])

(* C12: createCategory and updateCategory with a name that is empty after
   trimming fail with the validation error, and every category and
   transaction is as the call found it. *)
C12_BlankNameRefused ==
    \A p \in Procs :
        \A op \in {"createCategory", "updateCategory"} :
            (Settled(p, op) /\ Blank(call[p].input_name)) =>
                /\ call[p].error = "validation"
                /\ Store = call[p].pre
                /\ \A c \in categories : ~Blank(c.name)

(* C12's case: a name of one space was refused for a category that exists. *)
C12_Witness ==
    \E p \in Procs :
        /\ Settled(p, "updateCategory")
        /\ call[p].input_name # <<>> /\ Blank(call[p].input_name)
        /\ call[p].id \in CategoryIds(categories)
        /\ call[p].error = "validation"
        /\ transactions # {}

(* C13: updateCategory(id, input) with a name that passes validation and an
   id that matches no category fails with the not-found error; no category
   is created and no category or transaction changes. *)
C13_UnknownCategoryNotFound ==
    \A p \in Procs :
        ( /\ Settled(p, "updateCategory")
          /\ ~Blank(call[p].input_name)
          /\ call[p].id \notin CategoryIds(call[p].pre.categories) ) =>
            /\ call[p].error = "notfound"
            /\ call[p].id \notin CategoryIds(categories)
            /\ Store = call[p].pre

(* C13's case: the update of an unknown id was refused over a store that
   holds a transaction linked to a category. *)
C13_Witness ==
    \E p \in Procs :
        /\ Settled(p, "updateCategory")
        /\ call[p].error = "notfound"
        /\ call[p].id \notin CategoryIds(categories)
        /\ \E t \in transactions : t.amount # 0 /\ t.categoryId # NULL

(* What createTransaction does with a categoryId that names no category:
   the foreign key refuses the row and nothing changes. *)
CreateRefusesUnknownCategory ==
    \A p \in Procs :
        ( /\ Settled(p, "createTransaction")
          /\ call[p].categoryId \notin CategoryIds(call[p].pre.categories) \cup {NULL} ) =>
            call[p].error = "foreignkey" /\ Store = call[p].pre

(* C14: updateTransaction(id, input) with an id that matches no transaction
   fails with the not-found error and changes nothing.  With an existing id
   it does what createTransaction does with the same input: a categoryId
   that names no category is refused as createTransaction refuses it and
   nothing changes; otherwise the row gets -|amount| when the type to go by
   (the category's, or the caller's without a category) is expense and
   |amount| when it is income, together with the date and the category
   given, it keeps its id and createdAt, and no other row changes. *)
C14_UpdateTransaction ==
    /\ CreateRefusesUnknownCategory
    /\ \A p \in Procs :
        Settled(p, "updateTransaction") =>
            IF call[p].id \notin TransactionIds(call[p].pre.transactions)
            THEN call[p].error = "notfound" /\ Store = call[p].pre
            ELSE IF call[p].categoryId \notin CategoryIds(call[p].pre.categories) \cup {NULL}
            THEN call[p].error = "foreignkey" /\ Store = call[p].pre
            ELSE /\ call[p].error = "none"
                 /\ categories = call[p].pre.categories
                 /\ TransactionIds(transactions) = TransactionIds(call[p].pre.transactions)
                 /\ \A t \in call[p].pre.transactions :
                       t.id # call[p].id => t \in transactions
                 /\ LET old == TransactionById(call[p].pre.transactions, call[p].id)
                        new == TransactionById(transactions, call[p].id)
                    IN /\ new.createdAt = old.createdAt
                       /\ new.categoryId = call[p].categoryId
                       /\ new.occurredOn = IF call[p].input_occurredOn # NoDate
                                           THEN call[p].input_occurredOn
                                           ELSE call[p].at.date
                       /\ new.amount = IF TypeToGoBy(p) = "expense"
                                       THEN -Abs(call[p].amount) ELSE Abs(call[p].amount)

(* C14's case: one of several transactions was moved to an expense category
   with a positive amount sent as income; it is stored negative under its
   old createdAt. *)
C14_Witness ==
    \E p \in Procs :
        /\ Succeeded(p, "updateTransaction")
        /\ Cardinality(transactions) >= 2
        /\ call[p].categoryId # NULL
        /\ TypeToGoBy(p) = "expense" /\ call[p].type = "income"
        /\ call[p].amount > 0
        /\ LET old == TransactionById(call[p].pre.transactions, call[p].id)
               new == TransactionById(transactions, call[p].id)
           IN /\ new.amount = -call[p].amount
              /\ new # old
              /\ new.createdAt = old.createdAt /\ new.createdAt # call[p].at

(* C15: deleteTransaction(id) raises no error whether or not a transaction
   has that id; afterwards no transaction has it, every other transaction
   and every category is as before, and so a second deletion of the id
   changes nothing. *)
C15_DeleteIdempotent ==
    \A p \in Procs :
        Settled(p, "deleteTransaction") =>
            /\ call[p].error = "none"
            /\ categories = call[p].pre.categories
            /\ transactions = {t \in call[p].pre.transactions : t.id # call[p].id}
            /\ call[p].id \notin TransactionIds(transactions)
            /\ call[p].id \notin TransactionIds(call[p].pre.transactions) =>
                   Store = call[p].pre

(* C15's case: the second call deleted an id that the sequence counter shows
   to have been given out and that a deletion had removed before; the
   transactions left are untouched. *)
C15_Witness ==
    \E p \in Procs :
        /\ calls = 2
        /\ Succeeded(p, "deleteTransaction")
        /\ call[p].id <= sqlite_sequence.transactions
        /\ call[p].id \notin TransactionIds(call[p].pre.transactions)
        /\ transactions # {}
        /\ Store = call[p].pre

(* C16: whenever createCategory, updateCategory, createTransaction or
   updateTransaction reports an error, at whichever store call, the stored
   categories and transactions are what they were before the call. *)
C16_WritesAllOrNothing ==
    \A p \in Procs :
        \A op \in {"createCategory", "updateCategory",
                    "createTransaction", "updateTransaction"} :
            (Settled(p, op) /\ call[p].error # "none") => Store = call[p].pre

DefaultNames == {DEFAULT_CATEGORIES[i].name : i \in 1..Len(DEFAULT_CATEGORIES)}

(* The call's getDatabase ran the seeding and has returned. *)
HasSeeded(p) == call[p].seedDb # NULL /\ call[p].db # NULL

(* C17: when getDatabase has seeded over the categories it found, each of
   the ten default names belongs to exactly one category, every category
   found is there unchanged (id, name, type, color, createdAt), each
   category added carries a default name that no category found carried,
   and over no categories the result is 3 income and 7 expense categories. *)
C17_SeedingKeepsWhatItFinds ==
    \A p \in Procs :
        HasSeeded(p) =>
            /\ \A n \in DefaultNames :
                  Cardinality({c \in call[p].pre.categories : c.name = n}) = 1
            /\ call[p].seedPre \subseteq call[p].pre.categories
            /\ \A c \in call[p].pre.categories \ call[p].seedPre :
                  /\ c.name \in DefaultNames
                  /\ c.name \notin CategoryNames(call[p].seedPre)
                  /\ c.id \notin CategoryIds(call[p].seedPre)
            /\ call[p].seedPre = {} =>
                  /\ Cardinality({c \in call[p].pre.categories : c.type = "income"}) = 3
                  /\ Cardinality({c \in call[p].pre.categories : c.type = "expense"}) = 7
                  /\ Cardinality(call[p].pre.categories) = 10

(* C17's case: seeding found Groceries as an income category of an earlier
   run and no Salary; it left the first as it was and added the second. *)
C17_Witness ==
    \E p \in Procs :
        /\ HasSeeded(p)
        /\ \E c \in call[p].seedPre :
              /\ c.name = Groceries /\ c.type = "income"
              /\ c.createdAt # call[p].at
              /\ c \in categories
        /\ Salary \notin CategoryNames(call[p].seedPre)
        /\ \E c \in categories :
              c.name = Salary /\ c.createdAt = call[p].at /\ c.id = 11

(* The transactions whose occurredOn lies in monthBounds of the call's
   target date. *)
InWindow(p) ==
    {t \in transactions :
        /\ DateLeq(monthBounds(call[p].target, call[p].tz).start, t.occurredOn)
        /\ DateLeq(t.occurredOn, monthBounds(call[p].target, call[p].tz).end)}

(* C18: fetchMonthlyTotals(d) returns income = the sum of the non-negative
   amounts with occurredOn in monthBounds(d), expenses = the absolute value
   of the sum of the negative amounts there, balance = income - expenses;
   the three are numbers, income and expenses not below 0, and all 0 when
   no transaction lies in the window. *)
C18_MonthlyTotals ==
    \A p \in Procs :
        Succeeded(p, "fetchMonthlyTotals") =>
            \E r \in call[p].result :
                /\ call[p].result = {r}
                /\ r.income = SumAmounts({t \in InWindow(p) : t.amount >= 0})
                /\ r.expenses = Abs(SumAmounts({t \in InWindow(p) : t.amount < 0}))
                /\ r.balance = r.income - r.expenses
                /\ r.income \in Nat /\ r.expenses \in Nat /\ r.balance \in Int
                /\ InWindow(p) = {} => (r.income = 0 /\ r.expenses = 0 /\ r.balance = 0)

(* C18's case: +1000, -200 and -50 lie in the window and give 1000, 250 and
   750, while a transaction outside the window adds nothing. *)
C18_Witness ==
    \E p \in Procs :
        /\ Succeeded(p, "fetchMonthlyTotals")
        /\ {t.amount : t \in InWindow(p)} = {1000, -200, -50}
        /\ transactions \ InWindow(p) # {}
        /\ call[p].result = {[income |-> 1000, expenses |-> 250, balance |-> 750]}

(* The transactions of the window that are linked to category id. *)
LinkedInWindow(p, id) == {t \in InWindow(p) : t.categoryId = id}

(* C19: fetchMonthlyTotalsByCategory(d) returns one entry for each category
   that has a transaction linked to it in monthBounds(d) and no other
   entry; the total of an income category is the sum of those stored
   amounts and the total of an expense category is minus that sum.
   Transactions without a category enter no entry. *)
C19_CategoryTotals ==
    \A p \in Procs :
        Succeeded(p, "fetchMonthlyTotalsByCategory") =>
            \E list \in call[p].result :
                /\ call[p].result = {list}
                /\ \A c \in categories :
                      Cardinality({i \in DOMAIN list : list[i].categoryId = c.id}) =
                          IF LinkedInWindow(p, c.id) # {} THEN 1 ELSE 0
                /\ \A i \in DOMAIN list :
                      \E c \in categories :
                          /\ list[i].categoryId = c.id
                          /\ list[i].categoryName = c.name
                          /\ list[i].categoryType = c.type
                          /\ c.type = "income" =>
                                 list[i].total = SumAmounts(LinkedInWindow(p, c.id))
                          /\ c.type = "expense" =>
                                 list[i].total = -SumAmounts(LinkedInWindow(p, c.id))

(* C19's case: two transactions of one expense category in the window make
   one entry, a transaction without a category lies in the window, and a
   category whose only transaction lies outside has no entry. *)
C19_Witness ==
    \E p \in Procs :
        /\ Succeeded(p, "fetchMonthlyTotalsByCategory")
        /\ \E list \in call[p].result :
              /\ Len(list) = 1
              /\ list[1].categoryType = "expense"
              /\ Cardinality(LinkedInWindow(p, list[1].categoryId)) = 2
              /\ list[1].total = 250
        /\ \E t \in InWindow(p) : t.categoryId = NULL
        /\ \E t \in transactions \ InWindow(p) : t.categoryId # NULL

(* C20 as claimed: the total of every entry is the sum of the category's
   stored amounts in the window, negative when those are negative. *)
C20_AsClaimed ==
    \A p \in Procs :
        Succeeded(p, "fetchMonthlyTotalsByCategory") =>
            \A list \in call[p].result :
                \A i \in DOMAIN list :
                    list[i].total = SumAmounts(LinkedInWindow(p, list[i].categoryId))

(* C20, amended: the total of an entry has the magnitude of the sum of the
   category's stored amounts in the window; it carries the sign of that sum
   for an income category and the opposite sign for an expense category, so
   that an expense category whose stored amounts are negative is reported
   with a positive total. *)
C20_TotalTurnedForExpense ==
    \A p \in Procs :
        Succeeded(p, "fetchMonthlyTotalsByCategory") =>
            \A list \in call[p].result :
                \A i \in DOMAIN list :
                    LET sum == SumAmounts(LinkedInWindow(p, list[i].categoryId)) IN
                    /\ Abs(list[i].total) = Abs(sum)
                    /\ list[i].categoryType = "income" => list[i].total = sum
                    /\ list[i].categoryType = "expense" => list[i].total + sum = 0
                    /\ (list[i].categoryType = "expense" /\ sum < 0) => list[i].total > 0

(* C20's case: an expense category with stored amounts -200 and -50 is
   reported with 250, beside an income category reported as stored. *)
C20_Witness ==
    \E p \in Procs :
        /\ Succeeded(p, "fetchMonthlyTotalsByCategory")
        /\ \E list \in call[p].result :
              \E i, j \in DOMAIN list :
                  /\ list[i].categoryType = "expense"
                  /\ SumAmounts(LinkedInWindow(p, list[i].categoryId)) < 0
                  /\ list[i].total > 0
                  /\ list[j].categoryType = "income"
                  /\ list[j].total = SumAmounts(LinkedInWindow(p, list[j].categoryId))
                  /\ list[j].total > 0

-----------------------------------------------------------------------------
(* C21: the entries of a resolved fetchMonthlyTotalsByCategory stand with
   the income categories before the expense categories ('income' is the
   greater text), and among entries of one type with the greater sum of
   stored amounts in the window before the smaller; the sum is the stored
   one, not the reported positive total. *)
C21_OrderedByTypeThenStoredSum ==
    \A p \in Procs :
        Succeeded(p, "fetchMonthlyTotalsByCategory") =>
            \A list \in call[p].result :
                \A i, j \in DOMAIN list :
                    i < j =>
                        LET a == list[i]
                            b == list[j]
                        IN \/ a.categoryType = "income" /\ b.categoryType = "expense"
                           \/ /\ a.categoryType = b.categoryType
                              /\ SumAmounts(LinkedInWindow(p, a.categoryId))
                                    >= SumAmounts(LinkedInWindow(p, b.categoryId))

(* A list of three entries: an income category first, then two expense
   categories of different sums, the one that spent less first. *)
C21_Witness ==
    \E p \in Procs :
        /\ Succeeded(p, "fetchMonthlyTotalsByCategory")
        /\ \E list \in call[p].result :
              /\ Len(list) = 3
              /\ list[1].categoryType = "income"
              /\ list[2].categoryType = "expense"
              /\ list[3].categoryType = "expense"
              /\ list[2].total < list[3].total

-----------------------------------------------------------------------------
(* The stored transactions dated within the range a call was given, as the
   records a read returns for them. *)
RecordsInRange(p) ==
    {JoinedRow(t, categories) :
        t \in {t \in transactions : /\ DateLeq(call[p].startDate, t.occurredOn)
                                     /\ DateLeq(t.occurredOn, call[p].endDate)}}

(* The list stands by occurredOn descending and, for equal dates, by
   createdAt descending. *)
NewestFirst(list) ==
    \A i, j \in DOMAIN list :
        i < j =>
            \/ list[i].occurredOn # list[j].occurredOn
                 /\ DateLeq(list[j].occurredOn, list[i].occurredOn)
            \/ list[i].occurredOn = list[j].occurredOn
                 /\ InstantLeq(list[j].createdAt, list[i].createdAt)

(* C22: a resolved fetchTransactionsForRange(start, end) returns each stored
   transaction with start <= occurredOn <= end once, both bounds included,
   and no other, however many they are, by occurredOn descending and for
   equal dates by createdAt descending. *)
C22_RangeInclusiveNewestFirst ==
    \A p \in Procs :
        Succeeded(p, "fetchTransactionsForRange") =>
            \A list \in call[p].result :
                /\ {list[i] : i \in DOMAIN list} = RecordsInRange(p)
                /\ Len(list) = Cardinality(RecordsInRange(p))
                /\ NewestFirst(list)

(* The range from the 15th to the 31st of March over all five stored
   transactions: the one of the 31st first, then the two of the 15th, the
   one entered later before the other; the one of the 1st left out. *)
C22_Witness ==
    \E p \in Procs :
        /\ Succeeded(p, "fetchTransactionsForRange")
        /\ call[p].startDate = Date(2024, 3, 15)
        /\ call[p].endDate = Date(2024, 3, 31)
        /\ Cardinality(transactions) = 5
        /\ \E list \in call[p].result :
              /\ Len(list) = 3
              /\ list[1].id = 3 /\ list[1].occurredOn = call[p].endDate
              /\ list[2].id = 5 /\ list[2].occurredOn = call[p].startDate
              /\ list[3].id = 2 /\ list[3].occurredOn = call[p].startDate

(* Every transaction of a store that holds more than fetchTransactions
   returns by default comes back. *)
C22_WitnessMany ==
    \E p \in Procs :
        /\ Succeeded(p, "fetchTransactionsForRange")
        /\ \E list \in call[p].result :
              Len(list) = Cardinality(transactions) /\ Len(list) > DefaultLimit

-----------------------------------------------------------------------------
(* C23: a resolved fetchTransactions(limit), limit a natural number or left
   out and then 50, returns min(limit, N) of the N stored transactions and
   never more than limit: a list that stands by occurredOn descending then
   createdAt descending, and each stored transaction it leaves out stands
   in that order no earlier than each it returns. *)
C23_FirstOfNewestFirst ==
    \A p \in Procs :
        Succeeded(p, "fetchTransactions") =>
            LET limit == IF call[p].limit = {} THEN 50
                         ELSE CHOOSE n \in call[p].limit : TRUE
                all == {JoinedRow(t, categories) : t \in transactions}
                N == Cardinality(all)
            IN \A list \in call[p].result :
                /\ Len(list) = IF limit < N THEN limit ELSE N
                /\ Len(list) <= limit
                /\ Cardinality(Records(p)) = Len(list)
                /\ Records(p) \subseteq all
                /\ NewestFirst(list)
                /\ \A out \in all \ Records(p) :
                      \A i \in DOMAIN list : NewestFirst(<<list[i], out>>)

(* With no limit given, 50 of 51 stored transactions come back, the oldest
   left out. *)
C23_Witness ==
    \E p \in Procs :
        /\ Succeeded(p, "fetchTransactions")
        /\ call[p].limit = {}
        /\ Cardinality(transactions) = 51
        /\ \E list \in call[p].result :
              /\ Len(list) = 50
              /\ \A i \in DOMAIN list : list[i].id # 1

(* With the limit 2 over the five stored transactions, the one of the 31st
   of March and the later entered one of the 15th come back. *)
C23_WitnessLimit ==
    \E p \in Procs :
        /\ Succeeded(p, "fetchTransactions")
        /\ call[p].limit = {2}
        /\ Cardinality(transactions) = 5
        /\ \E list \in call[p].result :
              Len(list) = 2 /\ list[1].id = 3 /\ list[2].id = 5

-----------------------------------------------------------------------------
(* C24: for the instant d a monthly report was asked for, monthBounds(d)
   has start = the first day and end = the last day of the month d lies in
   on the device's calendar: day 01, and day 28, 29, 30 or 31 by month and
   leap year, in the same month and year. *)
C24_FirstToLastDayOfMonth ==
    \A p \in Procs :
        (Settled(p, "fetchMonthlyTotals") \/ Settled(p, "fetchMonthlyTotalsByCategory")) =>
            LET d == LocalDate(call[p].target, call[p].tz)
                bounds == monthBounds(call[p].target, call[p].tz)
            IN /\ bounds.start = Date(d.year, d.month, 1)
               /\ bounds.end = Date(d.year, d.month,
                                    IF d.month = 2
                                    THEN (IF (d.year % 4 = 0 /\ d.year % 100 # 0)
                                             \/ d.year % 400 = 0 THEN 29 ELSE 28)
                                    ELSE IF d.month \in {4, 6, 9, 11} THEN 30 ELSE 31)

-----------------------------------------------------------------------------
(* The list holds each stored category once and no other, and among
   categories of one type stands by name ascending. *)
EachCategoryOnceByName(list) ==
    /\ {list[i] : i \in DOMAIN list} = categories
    /\ Len(list) = Cardinality(categories)
    /\ \A i, j \in DOMAIN list :
          (i < j /\ list[i].type = list[j].type) => TextLeq(list[i].name, list[j].name)

(* C25 as claimed: a resolved fetchCategories returns every stored category
   once, by type then name ascending, all expense categories before all
   income categories. *)
C25_AsClaimed ==
    \A p \in Procs :
        Succeeded(p, "fetchCategories") =>
            \A list \in call[p].result :
                /\ EachCategoryOnceByName(list)
                /\ \A i, j \in DOMAIN list :
                      (list[i].type = "expense" /\ list[j].type = "income") => i < j

(* C25: a resolved fetchCategories returns every stored category once, by
   type descending as texts then name ascending: all income categories
   before all expense categories. *)
C25_IncomeBeforeExpense ==
    \A p \in Procs :
        Succeeded(p, "fetchCategories") =>
            \A list \in call[p].result :
                /\ EachCategoryOnceByName(list)
                /\ \A i, j \in DOMAIN list :
                      (list[i].type = "income" /\ list[j].type = "expense") => i < j

(* The list over the defaults and a category F: the three income categories
   by name, then the expense categories, Dining Out, F and Groceries in
   front. *)
C25_Witness ==
    \E p \in Procs :
        /\ Succeeded(p, "fetchCategories")
        /\ \E list \in call[p].result :
              /\ Len(list) = 11
              /\ list[1].name = Freelance /\ list[1].type = "income"
              /\ list[2].name = InvestmentIncome
              /\ list[3].name = Salary
              /\ list[4].name = DiningOut /\ list[4].type = "expense"
              /\ list[5].name = <<"F">>
              /\ list[6].name = Groceries

-----------------------------------------------------------------------------
(* C26: the record a resolved createTransaction or updateTransaction
   returns equals in amount, occurredOn, categoryId, categoryName and
   categoryType the record a read returns for the same id in the state the
   call settled in: name and type are those of the joined category, and
   null when the transaction has no category or its category is missing. *)
C26_ReturnedAsRead ==
    \A p \in Procs :
        (Succeeded(p, "createTransaction") \/ Succeeded(p, "updateTransaction")) =>
            \A r \in call[p].result :
                /\ r.id \in TransactionIds(transactions)
                /\ LET read == JoinedRow(TransactionById(transactions, r.id), categories)
                   IN /\ r.amount = read.amount
                      /\ r.occurredOn = read.occurredOn
                      /\ r.categoryId = read.categoryId
                      /\ r.categoryName = read.categoryName
                      /\ r.categoryType = read.categoryType
                /\ r.categoryId \notin CategoryIds(categories) =>
                      (r.categoryName = <<>> /\ r.categoryType = "null")

-----------------------------------------------------------------------------
(* C27: every category id the store has given out is still the id of a
   stored category, and the categoryId of each stored transaction is null
   or the id of a stored category. *)
C27_CategoriesKeptLinksValid ==
    /\ \A id \in 1..sqlite_sequence.categories : id \in CategoryIds(categories)
    /\ \A t \in transactions :
          t.categoryId = NULL \/ t.categoryId \in CategoryIds(categories)

-----------------------------------------------------------------------------
(* The four loaded values of a context. *)
Loaded(ctx) ==
    <<ctx.categories, ctx.transactions, ctx.monthlyTotals, ctx.categoryTotals>>

(* C28: when the operation that addTransaction, editTransaction,
   removeTransaction, addCategory or editCategory awaited has rejected and
   the callback has settled, lastError is set, the callback has rejected
   with that error, it has called loadData not once, and categories,
   transactions, monthlyTotals and categoryTotals are what they were when
   the callback was invoked. *)
C28_FailedWriteLeavesContext ==
    \A p \in Procs :
        (/\ task[p].stage = "settled"
         /\ task[p].op \in {"addTransaction", "editTransaction", "removeTransaction",
                             "addCategory", "editCategory"}
         /\ task[p].error # "none") =>
            /\ context.lastError # "null"
            /\ task[p].outcome = "rejected"
            /\ task[p].loads = 0
            /\ Loaded(context) = Loaded(task[p].before)

(* After a load that brought ten categories and five transactions,
   removeTransaction rejects because the store fails: the lists stay. *)
C28_Witness ==
    \E p \in Procs :
        /\ task[p].stage = "settled"
        /\ task[p].op = "removeTransaction"
        /\ task[p].outcome = "rejected"
        /\ context.lastError = "Unable to delete transaction."
        /\ Len(context.categories) = 10
        /\ Len(context.transactions) = 5
        /\ context.monthlyTotals.income = 1000

-----------------------------------------------------------------------------
(* C29: a caller that getDatabase has handed a handle to holds one on which
   the schema statement has been executed and on which no execution of the
   schema statement and no seeding loop is still in flight. *)
C29_HandleOnlyAfterInitialization ==
    \A p \in Procs :
        call[p].db # NULL =>
            /\ call[p].db \in fkOn
            /\ \A q \in Procs :
                  /\ pc[q] = "schema" => call[q].handle # call[p].db
                  /\ pc[q] = "seed" => call[q].seedDb # call[p].db

(* C30: a call whose getDatabase rejected reports the error, and a call
   that getDatabase has handed a handle to found the tables created, the
   schema statement executed on the handle, and every row of the seeding
   loop inserted: after a first initialization that failed, getDatabase
   has run the schema statement and the seeding again. *)
C30_FailedInitializationRunAgain ==
    \A p \in Procs :
        /\ (pc[p] = "done" /\ call[p].db = NULL) => call[p].error # "none"
        /\ call[p].db # NULL =>
              /\ tables
              /\ call[p].db \in fkOn
              /\ \A i \in 1..Len(DEFAULT_CATEGORIES) :
                    i \in CategoryIds(call[p].pre.categories)

-----------------------------------------------------------------------------
(* C31: when a createTransaction or updateTransaction given category c and
   an updateCategory of c have both resolved, whichever way their steps
   interleaved, the transaction written, if it is still linked to c,
   carries the sign of the type c has now: negative for expense, not
   negative for income.  A stored zero is counted as consistent. *)
C31_SignSurvivesInterleaving ==
    \A p, q \in Procs :
        (/\ p # q
         /\ Succeeded(p, "createTransaction") \/ Succeeded(p, "updateTransaction")
         /\ Succeeded(q, "updateCategory")
         /\ call[p].categoryId = call[q].id) =>
            LET id == IF call[p].op = "createTransaction" THEN call[p].rowId
                      ELSE call[p].id
            IN \A t \in transactions :
                (/\ t.id = id
                 /\ t.categoryId = call[q].id
                 /\ t.categoryId \in CategoryIds(categories)
                 /\ t.amount # 0) =>
                    (CategoryById(categories, t.categoryId).type = "expense"
                        <=> t.amount < 0)

-----------------------------------------------------------------------------
(* The sum of the totals of the entries of one type, from entry i on. *)
RECURSIVE SumOfTotals(_, _, _)
SumOfTotals(list, type, i) ==
    IF i > Len(list) THEN 0
    ELSE (IF list[i].categoryType = type THEN list[i].total ELSE 0)
           + SumOfTotals(list, type, i + 1)

(* A load of the context has resolved with all of its reads: the context
   holds what fetchMonthlyTotals and fetchMonthlyTotalsByCategory returned
   over the store as it is. *)
LoadedBothReports(p) ==
    /\ task[p].stage = "settled"
    /\ task[p].outcome = "resolved"
    /\ task[p].loads > 0
    /\ context.lastError = "null"

(* C32: when the two monthly reports have been read over a store in whose
   month window every transaction is linked to a category, the totals of
   the income categories add up to the income of fetchMonthlyTotals, those
   of the expense categories to its expenses, and no category total is
   negative. *)
C32_ReportsAgree ==
    \A p \in Procs :
        (/\ LoadedBothReports(p)
         /\ \A t \in InRange(transactions, monthBounds(ClockReading, 0)) :
                t.categoryId \in CategoryIds(categories)) =>
            /\ SumOfTotals(context.categoryTotals, "income", 1) = context.monthlyTotals.income
            /\ SumOfTotals(context.categoryTotals, "expense", 1)
                  = context.monthlyTotals.expenses
            /\ \A i \in DOMAIN context.categoryTotals :
                  context.categoryTotals[i].total >= 0

-----------------------------------------------------------------------------
(* C33: at the instant t and in the time zone a monthly report is asked
   for, the date createTransaction gives a transaction without occurredOn
   at t, toDateOnlyString(new Date()), lies within monthBounds(t), both
   bounds included: the report counts a transaction entered at t. *)
C33_DefaultDateInWindow ==
    \A p \in Procs :
        (Settled(p, "fetchMonthlyTotals") \/ Settled(p, "fetchMonthlyTotalsByCategory")) =>
            LET date == toDateOnlyString(call[p].target)
                bounds == monthBounds(call[p].target, call[p].tz)
            IN DateLeq(bounds.start, date) /\ DateLeq(date, bounds.end)

-----------------------------------------------------------------------------
(* C35: a loadData call that has settled has left loading false.  When
   initializeDatabase or one of the four reads rejected, lastError is
   'Unable to load budget data.' and categories, transactions,
   monthlyTotals and categoryTotals are what they were when the callback
   was invoked; when all resolved, the four are the four values read by
   this call.  While the call is in flight the four are untouched. *)
C35_LoadAllOrNothing ==
    \A p \in Procs :
        task[p].loads > 0 =>
            /\ task[p].stage \in {"load_init", "load_reads"} =>
                   /\ context.loading
                   /\ Loaded(context) = Loaded(task[p].before)
            /\ task[p].stage = "settled" =>
                   /\ ~context.loading
                   /\ IF task[p].loadError # "none"
                      THEN /\ context.lastError = "Unable to load budget data."
                           /\ Loaded(context) = Loaded(task[p].before)
                      ELSE /\ DOMAIN task[p].got = LoadReads
                           /\ context.lastError = "null"
                           /\ Loaded(context) =
                                  <<task[p].got["fetchCategories"],
                                    task[p].got["fetchTransactions"],
                                    task[p].got["fetchMonthlyTotals"],
                                    task[p].got["fetchMonthlyTotalsByCategory"]>>

(* After a load that brought five transactions, removeTransaction deletes
   one and its loadData reads the four that remain, but another of the
   reads rejects: the context keeps the five. *)
C35_Witness ==
    \E p \in Procs :
        /\ task[p].stage = "settled"
        /\ task[p].op = "removeTransaction"
        /\ task[p].loadError # "none"
        /\ "fetchTransactions" \in DOMAIN task[p].got
        /\ Len(task[p].got["fetchTransactions"]) = 4
        /\ Len(context.transactions) = 5
        /\ ~context.loading

(* A load whose four reads resolved has set the four values. *)
C35_WitnessLoaded ==
    \E p \in Procs :
        /\ task[p].stage = "settled"
        /\ task[p].loads > 0
        /\ task[p].loadError = "none"
        /\ Len(context.categories) = 10
        /\ ~context.loading

-----------------------------------------------------------------------------
(* The context holds what the four reads of loadData return over the store
   as it is. *)
ContextShowsStore ==
    /\ context.categories \in CategoryOrderings(categories)
    /\ context.transactions \in
           {Limit(rows, DefaultLimit) :
               rows \in RowOrderings({JoinedRow(t, categories) : t \in transactions})}
    /\ context.monthlyTotals =
           MonthlyTotals(TotalsRow(transactions, monthBounds(ClockReading, 0)))
    /\ context.categoryTotals \in
           {MapCategoryTotals(rows) :
               rows \in Orderings(CategoryGroups(transactions, categories,
                                                 monthBounds(ClockReading, 0)))}

(* No callback is in flight, and one at least has loaded. *)
AllLoadsCompleted ==
    /\ \A p \in Procs : task[p].stage \in {"idle", "settled"}
    /\ \E p \in Procs : task[p].stage = "settled" /\ task[p].loads > 0
    /\ \A p \in Procs : task[p].error = "none" /\ task[p].loadError = "none"

(* C34: once every loadData call has completed, calls that overlapped
   included, the categories, transactions, monthlyTotals and categoryTotals
   of the context are those of the store at that time: the values of a
   load started earlier have not replaced those of one started later. *)
C34_LastLoadWins ==
    AllLoadsCompleted => ContextShowsStore

-----------------------------------------------------------------------------
(* The submissions of a form whose promise has not settled. *)
InFlight(f) == {i \in DOMAIN saves : saves[i].form = f /\ saves[i].outcome = "pending"}

(* Of each form one save at most is in flight. *)
OneSaveInFlight == \A f \in Forms : Cardinality(InFlight(f)) <= 1

(* handleSubmit has called onClose for the submissions that resolved and
   for no other. *)
ClosedWhenResolved ==
    \A i \in DOMAIN saves : saves[i].closed <=> saves[i].outcome = "resolved"

(* A form none of whose submissions is in flight has isSubmitting false. *)
SettledNotSubmitting == \A f \in Forms : InFlight(f) = {} => ~form[f].isSubmitting

(* C36: in TransactionForm and in CategoryForm one save at most is in
   flight at a time, handleSubmit calls onClose after onSubmit resolved and
   not after it rejected, and isSubmitting is false once the submission has
   settled, whichever way. *)
C36_OneSaveClosedOnSuccess ==
    /\ OneSaveInFlight
    /\ ClosedWhenResolved
    /\ SettledNotSubmitting

====
